---- MODULE Spec2Model ----
(***************************************************************************)
(* Model of the canonical-log pipeline of the blogger logging facade       *)
(* (logger/canonical_logger.go).                                           *)
(*                                                                         *)
(* Go strings and byte slices are sequences of one-character strings.      *)
(* A call of CanonicalLogger is one action: it reads its arguments from    *)
(* `args`, runs the whole function and appends what it hands to the        *)
(* slog.Logger to `sink`.                                                  *)
(***************************************************************************)
EXTENDS Integers, Sequences, FiniteSets, TLC

VARIABLES
    canonicalLogTemplate, \* the package variable: "nil" or "compiled"
    args,                 \* arguments of the CanonicalLogger call
    pc,                   \* "start" before the call, "done" after it returned,
                          \* "panic" after it panicked
    frame,                \* local variables of the call when it returned
    sink,                 \* calls received by the slog.Logger, in order
    logKey,               \* argument of a direct Sanitize call
    sanitizeResult,       \* [done, value]: the result of the Sanitize call
    stackErrors,          \* argument of a direct GetStackField call
    stackField,           \* [done, value]: the result of the GetStackField call
    dispatchArgs,         \* [level, logMsg, fields] that reach the level switch
    dispatched,           \* [done, calls]: the sink calls the switch made
    maskArgs,             \* [message, data] of a maskSensitiveDataUsingStructTag call
    maskResult,           \* [done, data]: the map when that call returned
    m,                    \* the mutex of Init: 0, or the goroutine that holds it
    Log,                  \* the package variable Log
    Slog,                 \* the package variable Slog
    Env,                  \* the package variable Env
    ServiceName,          \* the package variable ServiceName
    Version,              \* the package variable Version
    defaultLogger,        \* the logger set by slog.SetDefault
    environ,              \* the process environment: DD_* variable -> value
    setenvLeft,           \* the number of os.Setenv calls still to be made
    initPc,               \* goroutine -> its position in Init
    initConfig,           \* goroutine -> the config of its Init call
    callsLeft,            \* the number of Init calls still to be started
    callId,               \* goroutine -> the number of its Init call
    calls,                \* the number of Init calls started
    usedConfigs,          \* the configs of the Init calls started
    returned,             \* the number of Init calls that returned
    lastHolder,           \* the Init call that took the mutex last
    writer,               \* package variable -> the Init call that wrote it last
    ddFields,             \* [done, group]: the dd group AddDDFields attached
    adapters,             \* constructor -> what its call produced
    wrapped,              \* the call an adapter wraps: its inputs and what
                          \* the wrapped handler or invoker does
    outcome,              \* what the adapter returned to its caller
    loggerCalls,          \* goroutine -> its concurrent CanonicalLogger call:
                          \* arguments, position, locals, records emitted
    slogHandler           \* the slog.Handler of a logger derived from Slog,
                          \* and the records it passed on

\* the package variables of logger and what the Init calls are doing
initVars == <<m, Log, Slog, Env, ServiceName, Version, defaultLogger, environ,
              setenvLeft,
              initPc, initConfig, callsLeft, callId, calls, usedConfigs,
              returned,
              lastHolder, writer, ddFields>>

\* the variables of the direct calls of the pure functions
pureVars == <<stackErrors, stackField, dispatchArgs, dispatched, maskArgs,
              maskResult>>

\* the transport adapters
adapterVars == <<adapters, wrapped, outcome>>

\* the variables outside the canonical-log call and the Sanitize call
restVars == <<pureVars, initVars, adapterVars, loggerCalls, slogHandler>>

vars == <<canonicalLogTemplate, args, pc, frame, sink, logKey, sanitizeResult,
          restVars>>

(***************************************************************************)
(* Bounds of the explored inputs.                                          *)
(***************************************************************************)
\* a route key is a concatenation of at most MaxPieces pieces
MaxPieces == 2
\* a stack text has at most MaxSegs segments
MaxSegs == 10
\* a stack-error list has at most MaxFrames frames
MaxFrames == 3
\* a message struct has at most MaxFields fields
MaxFields == 2
\* a normalized map has at most MaxKeys keys
MaxKeys == 2
\* goroutines that call Init; a run has as many Init calls, made
\* concurrently or one after the other
NumGoroutines == 2
\* changes of the environment in a run
MaxSetenv == 1

(***************************************************************************)
(* Strings.                                                                *)
(***************************************************************************)
Range(s) == {s[i] : i \in DOMAIN s}

RECURSIVE Concat(_)
\* concatenation of a sequence of strings
Concat(ss) ==
    IF ss = <<>> THEN <<>> ELSE Head(ss) \o Concat(Tail(ss))

UpperCase ==
    <<"A", "B", "C", "D", "E", "F", "G", "H", "I", "J", "K", "L", "M",
      "N", "O", "P", "Q", "R", "S", "T", "U", "V", "W", "X", "Y", "Z">>

LowerCase ==
    <<"a", "b", "c", "d", "e", "f", "g", "h", "i", "j", "k", "l", "m",
      "n", "o", "p", "q", "r", "s", "t", "u", "v", "w", "x", "y", "z">>

\* the rune U+212A (KELVIN SIGN), whose lower case is the ASCII letter k
KelvinSign == "U+212A"

\* unicode.ToLower on the runes of the model's alphabet
ToLowerRune(c) ==
    IF \E i \in DOMAIN UpperCase : UpperCase[i] = c
    THEN LowerCase[CHOOSE i \in DOMAIN UpperCase : UpperCase[i] = c]
    ELSE IF c = KelvinSign THEN "k" ELSE c

\* strings.ToLower
ToLower(s) == [i \in DOMAIN s |-> ToLowerRune(s[i])]

RECURSIVE IndexFrom(_, _, _)
\* strings.Index scanning from offset i (0-based); -1 when there is no match
IndexFrom(s, substr, i) ==
    IF i + Len(substr) > Len(s) THEN -1
    ELSE IF SubSeq(s, i + 1, i + Len(substr)) = substr THEN i
    ELSE IndexFrom(s, substr, i + 1)

\* strings.Index
Index(s, substr) == IndexFrom(s, substr, 0)

\* strings.Contains
Contains(s, substr) == Index(s, substr) >= 0

(***************************************************************************)
(* Redaction policy.                                                       *)
(***************************************************************************)
DenyPatterns ==
    << <<"l", "o", "g", "i", "n">>,
       <<"r", "e", "f", "r", "e", "s", "h", "-", "t", "o", "k", "e", "n">>,
       <<"v", "e", "r", "i", "f", "y", "-", "o", "t", "p">>,
       <<"p", "a", "s", "s", "w", "o", "r", "d">>,
       <<"t", "o", "k", "e", "n">>,
       <<"s", "e", "c", "r", "e", "t">>,
       <<"k", "e", "y">> >>

RECURSIVE SanitizeLoop(_, _)
\* the range loop of Sanitize from pattern k on, with its early return
SanitizeLoop(logKeyLower, k) ==
    IF k > Len(DenyPatterns) THEN FALSE
    ELSE IF Contains(logKeyLower, DenyPatterns[k]) THEN TRUE
    ELSE SanitizeLoop(logKeyLower, k + 1)

\* Sanitize with the lower-casing left out
SanitizeCaseSensitive(key) == SanitizeLoop(key, 1)

Sanitize(key) == SanitizeLoop(ToLower(key), 1)

(***************************************************************************)
(* Route keys: concatenations of pieces, so that patterns occur whole, in  *)
(* mixed case, split over two pieces, or not at all.                       *)
(***************************************************************************)
Pieces ==
    { <<"/">>, <<"/", "a", "p", "i">>, <<"/", "h", "e", "a", "l", "t", "h">>, <<"u", "s", "e", "r", "s">>, <<"L", "O", "G">>, <<"i", "n">>, <<"l", "o">>,
      <<"g", "i", "n">>, <<"K", "e", "y">>, <<KelvinSign>>, <<"e", "y">>, <<"t", "o", "k">>, <<"E", "N">>,
      <<"P", "a", "s", "s">>, <<"w", "o", "r", "d">>, <<"s", "e", "c", "r", "e", "t">>, <<"r", "e", "f", "r", "e", "s", "h", "-">>, <<"-", "t", "o", "k", "e", "n">>,
      <<"v", "e", "r", "i", "f", "y">>, <<"-", "o", "t", "p">>, <<"k", "e">>, <<"y">> }

RECURSIVE PieceSeqs(_)
PieceSeqs(n) ==
    IF n = 0 THEN {<<>>}
    ELSE PieceSeqs(n - 1) \cup
         {Append(ps, p) : ps \in PieceSeqs(n - 1), p \in Pieces}

RouteKeys == {Concat(ps) : ps \in PieceSeqs(MaxPieces)}

(***************************************************************************)
(* encoding/json: json.Unmarshal(data, &jsonObj) with jsonObj a nil        *)
(* map[string]interface{}.  The text is scanned character by character.    *)
(* Modelled subset of the JSON grammar: objects, arrays, strings without   *)
(* escape sequences, integers without fraction or exponent, true, false,   *)
(* null, and white space.  Go values are tagged records [t, v].            *)
(***************************************************************************)
NilValue == [t |-> "nil", v |-> "nil"]
NilMap == [t |-> "nilmap", v |-> "nil"]
MapValue(entries) == [t |-> "map", v |-> entries]
SliceValue(xs) == [t |-> "slice", v |-> xs]
StringValue(s) == [t |-> "string", v |-> s]
NumberValue(n) == [t |-> "float64", v |-> n]
BoolValue(b) == [t |-> "bool", v |-> b]

Digits == <<"0", "1", "2", "3", "4", "5", "6", "7", "8", "9">>
IsDigit(c) == \E i \in DOMAIN Digits : Digits[i] = c
DigitVal(c) == (CHOOSE i \in DOMAIN Digits : Digits[i] = c) - 1

\* isSpace of the scanner
IsSpace(c) == c \in {" ", "\t", "\r", "\n"}

\* characters below 0x20 that the model's alphabet contains
IsControl(c) == c \in {"\t", "\r", "\n"}

RECURSIVE SkipSpace(_, _)
\* position of the first non-space character at or after i
SkipSpace(s, i) ==
    IF i <= Len(s) /\ IsSpace(s[i]) THEN SkipSpace(s, i + 1) ELSE i

ParseFail == [ok |-> FALSE, next |-> 0, val |-> NilValue]
ParseOk(n, x) == [ok |-> TRUE, next |-> n, val |-> x]

RECURSIVE ScanString(_, _)
\* position of the closing quote of a string whose body starts at i, or 0
ScanString(s, i) ==
    IF i > Len(s) THEN 0
    ELSE IF s[i] = "\"" THEN i
    ELSE IF IsControl(s[i]) \/ s[i] = "\\" THEN 0
    ELSE ScanString(s, i + 1)

\* a string literal starting at the quote at i
ParseString(s, i) ==
    LET close == ScanString(s, i + 1)
    IN  IF close = 0 THEN ParseFail
        ELSE ParseOk(close + 1, StringValue(SubSeq(s, i + 1, close - 1)))

RECURSIVE ScanDigits(_, _, _)
\* the digits from i on: the position after them and the number read so far
ScanDigits(s, i, acc) ==
    IF i <= Len(s) /\ IsDigit(s[i])
    THEN ScanDigits(s, i + 1, acc * 10 + DigitVal(s[i]))
    ELSE [next |-> i, val |-> acc]

\* a number starting at i (a minus sign or a digit)
ParseNumber(s, i) ==
    LET neg == s[i] = "-"
        j == IF neg THEN i + 1 ELSE i
    IN  IF j > Len(s) \/ ~IsDigit(s[j]) THEN ParseFail
        ELSE IF s[j] = "0" THEN ParseOk(j + 1, NumberValue(0))
        ELSE LET r == ScanDigits(s, j, 0)
             IN  ParseOk(r.next, NumberValue(IF neg THEN 0 - r.val ELSE r.val))

\* the literal word lit at position i
ParseLiteral(s, i, lit, x) ==
    IF i + Len(lit) - 1 <= Len(s) /\ SubSeq(s, i, i + Len(lit) - 1) = lit
    THEN ParseOk(i + Len(lit), x)
    ELSE ParseFail

RECURSIVE ParseValue(_, _)
RECURSIVE ParseMembers(_, _, _)
RECURSIVE ParseElements(_, _, _)

\* the members of an object from the key at i on; later keys overwrite
ParseMembers(s, i, entries) ==
    IF i > Len(s) \/ s[i] # "\"" THEN ParseFail
    ELSE LET k == ParseString(s, i)
             colon == SkipSpace(s, k.next)
         IN  IF ~k.ok \/ colon > Len(s) \/ s[colon] # ":" THEN ParseFail
             ELSE LET x == ParseValue(s, SkipSpace(s, colon + 1))
                      sep == SkipSpace(s, x.next)
                      m2 == (k.val.v :> x.val) @@ entries
                  IN  IF ~x.ok \/ sep > Len(s) THEN ParseFail
                      ELSE IF s[sep] = "}" THEN ParseOk(sep + 1, MapValue(m2))
                      ELSE IF s[sep] = ","
                           THEN ParseMembers(s, SkipSpace(s, sep + 1), m2)
                      ELSE ParseFail

\* the elements of an array from the value at i on
ParseElements(s, i, xs) ==
    LET x == ParseValue(s, i)
        sep == SkipSpace(s, x.next)
    IN  IF ~x.ok \/ sep > Len(s) THEN ParseFail
        ELSE IF s[sep] = "]"
             THEN ParseOk(sep + 1, SliceValue(Append(xs, x.val)))
        ELSE IF s[sep] = ","
             THEN ParseElements(s, SkipSpace(s, sep + 1), Append(xs, x.val))
        ELSE ParseFail

\* one JSON value starting at position i
ParseValue(s, i) ==
    IF i > Len(s) THEN ParseFail
    ELSE IF s[i] = "{"
         THEN LET j == SkipSpace(s, i + 1)
              IN  IF j <= Len(s) /\ s[j] = "}"
                  THEN ParseOk(j + 1, MapValue(<<>>))
                  ELSE ParseMembers(s, j, <<>>)
    ELSE IF s[i] = "["
         THEN LET j == SkipSpace(s, i + 1)
              IN  IF j <= Len(s) /\ s[j] = "]"
                  THEN ParseOk(j + 1, SliceValue(<<>>))
                  ELSE ParseElements(s, j, <<>>)
    ELSE IF s[i] = "\"" THEN ParseString(s, i)
    ELSE IF s[i] = "-" \/ IsDigit(s[i]) THEN ParseNumber(s, i)
    ELSE IF s[i] = "t" THEN ParseLiteral(s, i, <<"t", "r", "u", "e">>, BoolValue(TRUE))
    ELSE IF s[i] = "f" THEN ParseLiteral(s, i, <<"f", "a", "l", "s", "e">>, BoolValue(FALSE))
    ELSE IF s[i] = "n" THEN ParseLiteral(s, i, <<"n", "u", "l", "l">>, NilValue)
    ELSE ParseFail

\* checkValid followed by the decoding of the whole text
ParseDocument(data) ==
    LET r == ParseValue(data, SkipSpace(data, 1))
    IN  IF r.ok /\ SkipSpace(data, r.next) = Len(data) + 1 THEN r
        ELSE ParseFail

\* json.Unmarshal into a nil map[string]interface{}: a syntax error for an
\* invalid text, the map for an object, the nil map left as it is for null,
\* an UnmarshalTypeError for an array, a string, a number or a boolean
Unmarshal(data) ==
    LET r == ParseDocument(data)
    IN  IF ~r.ok THEN [err |-> TRUE, obj |-> NilMap]
        ELSE IF r.val.t = "map" THEN [err |-> FALSE, obj |-> r.val]
        ELSE IF r.val.t = "nil" THEN [err |-> FALSE, obj |-> NilMap]
        ELSE [err |-> TRUE, obj |-> NilMap]


(***************************************************************************)
(* log/slog attributes and the severity levels.                            *)
(***************************************************************************)
\* slog.String, slog.Int, slog.Any and slog.Group
StringAttr(k, s) == [key |-> k, kind |-> "String", value |-> s]
IntAttr(k, n) == [key |-> k, kind |-> "Int", value |-> n]
AnyAttr(k, x) == [key |-> k, kind |-> "Any", value |-> x]
GroupAttr(k, attrs) == [key |-> k, kind |-> "Group", value |-> attrs]

\* Level: 1 << iota
Debug == 1
Info == 2
Warn == 4
Error == 8

\* the placeholder that replaces a payload on a deny-listed route
Redacted == <<"R", "E", "D", "A", "C", "T", "E", "D">>

(***************************************************************************)
(* Errors.  An error value is a record: type "nil" is the nil interface,   *)
(* "opaque" any error that is not an *ExceptionError, "ExceptionError" an  *)
(* interface holding a *ExceptionError, which is a nil pointer when nilPtr *)
(* holds.  StackErrors is [isNil, elems]: a nil slice or a slice.          *)
(***************************************************************************)
NilSlice == [isNil |-> TRUE, elems |-> <<>>]
Slice(xs) == [isNil |-> FALSE, elems |-> xs]

StackError(kind, message, stack) ==
    [Kind |-> kind, Message |-> message, Stack |-> stack]

NoFields ==
    [Code |-> 0, GlobalMessage |-> <<>>, DebugMessage |-> <<>>,
     APIStatusCode |-> 0, ErrFields |-> NilMap, StackErrors |-> NilSlice]

NilError == [type |-> "nil", nilPtr |-> FALSE, e |-> NoFields]
OpaqueError == [type |-> "opaque", nilPtr |-> FALSE, e |-> NoFields]
NilExceptionError == [type |-> "ExceptionError", nilPtr |-> TRUE, e |-> NoFields]
ExceptionError(fields) == [type |-> "ExceptionError", nilPtr |-> FALSE, e |-> fields]

\* GetStackField returning the last frame instead of the first
GetStackFieldLast(errs) ==
    IF Len(errs.elems) > 0
    THEN errs.elems[Len(errs.elems)]
    ELSE StackError(<<"u", "n", "k", "n", "o", "w", "n">>, <<"n", "o", " ", "s", "t", "a", "c", "k", " ", "i", "n", "f", "o", "r", "m", "a", "t", "i", "o", "n", " ", "a", "v", "a", "i", "l", "a", "b", "l", "e">>, <<>>)

GetStackField(errs) ==
    IF Len(errs.elems) > 0
    THEN errs.elems[1]
    ELSE StackError(<<"u", "n", "k", "n", "o", "w", "n">>, <<"n", "o", " ", "s", "t", "a", "c", "k", " ", "i", "n", "f", "o", "r", "m", "a", "t", "i", "o", "n", " ", "a", "v", "a", "i", "l", "a", "b", "l", "e">>, <<>>)

(***************************************************************************)
(* strings.Split and strings.Join with a non-empty separator.              *)
(***************************************************************************)
RECURSIVE Split(_, _)
Split(s, sep) ==
    LET i == Index(s, sep)
    IN  IF i < 0 THEN <<s>>
        ELSE <<SubSeq(s, 1, i)>> \o
             Split(SubSeq(s, i + Len(sep) + 1, Len(s)), sep)

RECURSIVE Join(_, _)
Join(elems, sep) ==
    IF elems = <<>> THEN <<>>
    ELSE IF Len(elems) = 1 THEN elems[1]
    ELSE elems[1] \o sep \o Join(Tail(elems), sep)

\* the delimiter between the frames of a stack text
FrameDelimiter == <<"\n", "\t">>

\* the number of segments kept of a stack text
StackLimit == 6

\* truncation that keeps one segment more
TruncateStackOffByOne(stack) ==
    LET stackTraceParts == Split(stack, FrameDelimiter)
    IN  IF Len(stackTraceParts) > StackLimit + 1
        THEN Join(SubSeq(stackTraceParts, 1, StackLimit + 1), FrameDelimiter)
        ELSE stack

\* truncation that joins the kept segments with a bare newline
TruncateStackJoinNewline(stack) ==
    LET stackTraceParts == Split(stack, FrameDelimiter)
    IN  IF Len(stackTraceParts) > StackLimit
        THEN Join(SubSeq(stackTraceParts, 1, StackLimit), <<"\n">>)
        ELSE stack

\* the stack text that is rendered: at most the first StackLimit segments
TruncateStack(stack) ==
    LET stackTraceParts == Split(stack, FrameDelimiter)
    IN  IF Len(stackTraceParts) > StackLimit
        THEN Join(SubSeq(stackTraceParts, 1, StackLimit), FrameDelimiter)
        ELSE stack


(***************************************************************************)
(* The canonical template.  The package imports html/template, so every    *)
(* value is written through the HTML escaper of the text context.          *)
(***************************************************************************)
\* htmlReplacementTable of html/template, on the model's alphabet
HtmlReplacement(c) ==
    CASE c = "\"" -> <<"&", "#", "3", "4", ";">>
      [] c = "&" -> <<"&", "a", "m", "p", ";">>
      [] c = "'" -> <<"&", "#", "3", "9", ";">>
      [] c = "+" -> <<"&", "#", "4", "3", ";">>
      [] c = "<" -> <<"&", "l", "t", ";">>
      [] c = ">" -> <<"&", "g", "t", ";">>
      [] OTHER -> <<c>>

HtmlEscape(s) == Concat([i \in DOMAIN s |-> HtmlReplacement(s[i])])

RECURSIVE FmtInt(_)
\* fmtInt and strconv.Itoa on a non-negative number
FmtInt(v) ==
    IF v < 10 THEN <<Digits[v + 1]>>
    ELSE FmtInt(v \div 10) \o <<Digits[(v % 10) + 1]>>

\* the decimal text of an int
Itoa(n) == IF n < 0 THEN <<"-">> \o FmtInt(0 - n) ELSE FmtInt(n)

RECURSIVE FmtFracLoop(_, _, _, _)
FmtFracLoop(v, i, acc, print) ==
    IF i = 0
    THEN [text |-> IF print THEN <<".">> \o acc ELSE acc, v |-> v]
    ELSE LET digit == v % 10
             p == print \/ digit # 0
         IN  FmtFracLoop(v \div 10, i - 1,
                         IF p THEN <<Digits[digit + 1]>> \o acc ELSE acc, p)

\* fmtFrac: the fraction of v / 10^prec without trailing zeros, and v / 10^prec
FmtFrac(v, prec) == FmtFracLoop(v, prec, <<>>, FALSE)

Microsecond == 1000
Millisecond == 1000000
Second == 1000000000

\* the greek letter of the microsecond unit
MicroSign == "U+00B5"

\* time.Duration.String on a duration of u >= 0 nanoseconds
DurationString(u) ==
    IF u = 0 THEN <<"0", "s">>
    ELSE IF u < Microsecond THEN FmtInt(u) \o <<"n", "s">>
    ELSE IF u < Millisecond
         THEN LET f == FmtFrac(u, 3)
              IN  FmtInt(f.v) \o f.text \o <<MicroSign, "s">>
    ELSE IF u < Second
         THEN LET f == FmtFrac(u, 6)
              IN  FmtInt(f.v) \o f.text \o <<"m", "s">>
    ELSE LET f == FmtFrac(u, 9)
             secs == f.v % 60
             mins == (f.v \div 60) % 60
             hours == (f.v \div 60) \div 60
         IN  (IF hours > 0 THEN FmtInt(hours) \o <<"h">> ELSE <<>>) \o
             (IF f.v \div 60 > 0 THEN FmtInt(mins) \o <<"m">> ELSE <<>>) \o
             FmtInt(secs) \o f.text \o <<"s">>

\* Execute of the compiled template on a CanonicalLog value
Execute(canonicalLog) ==
    Concat(<< <<"[">>, HtmlEscape(canonicalLog.Transport),
              <<"]", "[">>, HtmlEscape(canonicalLog.Traffic),
              <<"]", " ">>, HtmlEscape(canonicalLog.Method),
              <<" ">>, HtmlEscape(Itoa(canonicalLog.Status)),
              <<" ">>, HtmlEscape(canonicalLog.Path),
              <<" ">>, HtmlEscape(DurationString(canonicalLog.Duration)),
              <<" ", "-", " ">>, HtmlEscape(canonicalLog.Message) >>)

TemplateFallback == <<"f", "a", "i", "l", "e", "d", " ", "t", "o", " ", "g", "e", "t", " ", "c", "a", "n", "o", "n", "i", "c", "a", "l", " ", "l", "o", "g", " ", "t", "e", "m", "p", "l", "a", "t", "e">>

\* GetCanonicalLogTemplate: the template, or an error when it is nil
GetCanonicalLogTemplate(tmpl) ==
    [tmpl |-> tmpl, err |-> tmpl = "nil"]

(***************************************************************************)
(* CanonicalLogger, step by step.                                          *)
(***************************************************************************)
\* the field of one payload: the parsed map, or the raw text
PayloadField(key, payload) ==
    IF Unmarshal(payload).err
    THEN StringAttr(key, payload)
    ELSE AnyAttr(key, Unmarshal(payload).obj)

\* reqFields
RequestFields(request, shouldSanitize) ==
    IF shouldSanitize
    THEN <<StringAttr("request", Redacted)>>
    ELSE <<PayloadField("request", request)>>

\* the level that keeps the caller's hint
ResolveLevelKeepHint(level, err) == level

\* the level that keeps the caller's hint when there is no error
ResolveLevelHintWithoutError(level, err) ==
    IF err.type # "nil" THEN Error ELSE level

\* level after the error branch
ResolveLevel(level, err) ==
    IF err.type # "nil" THEN Error ELSE Info

\* err.(*ExceptionError) succeeded and the pointer is not nil
IsException(err) == err.type = "ExceptionError" /\ ~err.nilPtr

\* the group error{kind, message, stack} of the first stack frame
StackGroup(cErr) ==
    LET stackTrace == GetStackField(cErr.StackErrors)
    IN  GroupAttr("error",
            <<StringAttr("kind", stackTrace.Kind),
              StringAttr("message", stackTrace.Message),
              StringAttr("stack", TruncateStack(stackTrace.Stack))>>)

\* the group response{status_code, data, error{...}} of a domain error
ResponseGroup(cErr) ==
    GroupAttr("response",
        <<IntAttr("status_code", cErr.APIStatusCode),
          AnyAttr("data", NilValue),
          GroupAttr("error",
              <<IntAttr("code", cErr.Code),
                StringAttr("message", cErr.GlobalMessage),
                StringAttr("debug_message", cErr.DebugMessage),
                AnyAttr("details", cErr.ErrFields)>>)>>)

\* the branch of lines 93-114 reads cErr.StackErrors and the other fields
\* of cErr: entered with a nil pointer, the call panics
NilDereference(err) == IsException(err) /\ err.nilPtr

\* the error branch that emits no response field for an opaque error
ClassifiedFieldsDropOpaque(response, err) ==
    IF IsException(err)
    THEN (IF ~err.e.StackErrors.isNil THEN <<StackGroup(err.e)>> ELSE <<>>)
         \o <<ResponseGroup(err.e)>>
    ELSE IF err.type # "nil" THEN <<>>
    ELSE <<PayloadField("response", response)>>

\* respFields before the redaction decision is applied
ClassifiedFields(response, err) ==
    IF IsException(err)
    THEN (IF ~err.e.StackErrors.isNil THEN <<StackGroup(err.e)>> ELSE <<>>)
         \o <<ResponseGroup(err.e)>>
    ELSE <<PayloadField("response", response)>>

\* response fields that ignore the redaction decision
ResponseFieldsUnredacted(response, err, shouldSanitize) ==
    ClassifiedFields(response, err)

\* respFields
ResponseFields(response, err, shouldSanitize) ==
    IF shouldSanitize
    THEN <<StringAttr("response", Redacted)>>
    ELSE ClassifiedFields(response, err)

\* canonicalLog after the error branch: a domain error overwrites Message
Classified(canonicalLog, err) ==
    IF IsException(err)
    THEN [canonicalLog EXCEPT !.Message = err.e.DebugMessage]
    ELSE canonicalLog

\* mdFields
MetadataFields(metadata) ==
    <<StringAttr("logger_name", <<"c", "a", "n", "o", "n", "i", "c", "a", "l">>), GroupAttr("md", metadata)>>

\* the summary that is empty when the template is missing
LogMsgEmptyFallback(tmpl, canonicalLog) ==
    IF GetCanonicalLogTemplate(tmpl).err THEN <<>> ELSE Execute(canonicalLog)

\* logMsg; Execute cannot fail on a CanonicalLog value, so the branch
\* "failed to execute canonical log template" is never taken
LogMsg(tmpl, canonicalLog) ==
    IF GetCanonicalLogTemplate(tmpl).err
    THEN TemplateFallback
    ELSE Execute(canonicalLog)

SinkCall(method, msg, fields) ==
    [method |-> method, msg |-> msg, fields |-> fields]

\* a switch without the default case
DispatchNoDefault(level, logMsg, fields) ==
    CASE level = Debug -> <<SinkCall("DebugContext", logMsg, fields)>>
      [] level = Info -> <<SinkCall("InfoContext", logMsg, fields)>>
      [] level = Warn -> <<SinkCall("WarnContext", logMsg, fields)>>
      [] level = Error -> <<SinkCall("ErrorContext", logMsg, fields)>>
      [] OTHER -> <<>>

\* a switch whose Error case also runs the default case
DispatchFallThrough(level, logMsg, fields) ==
    CASE level = Debug -> <<SinkCall("DebugContext", logMsg, fields)>>
      [] level = Info -> <<SinkCall("InfoContext", logMsg, fields)>>
      [] level = Warn -> <<SinkCall("WarnContext", logMsg, fields)>>
      [] level = Error -> <<SinkCall("ErrorContext", logMsg, fields),
                            SinkCall("ErrorContext", logMsg, fields)>>
      [] OTHER -> <<SinkCall("ErrorContext", logMsg, fields)>>

\* the switch on level: the calls made on the slog.Logger
Dispatch(level, logMsg, fields) ==
    CASE level = Debug -> <<SinkCall("DebugContext", logMsg, fields)>>
      [] level = Info -> <<SinkCall("InfoContext", logMsg, fields)>>
      [] level = Warn -> <<SinkCall("WarnContext", logMsg, fields)>>
      [] level = Error -> <<SinkCall("ErrorContext", logMsg, fields)>>
      [] OTHER -> <<SinkCall("ErrorContext", logMsg, fields)>>

\* the whole function: the calls it makes on the slog.Logger
CanonicalLoggerCalls(tmpl, a) ==
    LET shouldSanitize == Sanitize(a.canonicalLog.Path)
        reqFields == RequestFields(a.request, shouldSanitize)
        level == ResolveLevel(a.level, a.err)
        respFields == ResponseFields(a.response, a.err, shouldSanitize)
        canonicalLog == Classified(a.canonicalLog, a.err)
        mdFields == MetadataFields(a.metadata)
        logMsg == LogMsg(tmpl, canonicalLog)
        fields == reqFields \o respFields \o mdFields
    IN  Dispatch(level, logMsg, fields)

\* the local variables of the function when it returns
CanonicalLoggerFrame(tmpl, a) ==
    [shouldSanitize |-> Sanitize(a.canonicalLog.Path),
     level |-> ResolveLevel(a.level, a.err),
     canonicalLog |-> Classified(a.canonicalLog, a.err),
     logTmplErr |-> GetCanonicalLogTemplate(tmpl).err]

(***************************************************************************)
(* The sensitive-field masker of the gRPC client adapter.  A message is a  *)
(* pointer to a struct, given by the tags of its fields in order; a tag    *)
(* is [ok, value] as reflect.StructTag.Lookup returns it.  Strings are     *)
(* indexed by byte.                                                        *)
(***************************************************************************)
NoTag == [ok |-> FALSE, value |-> <<>>]
Tag(value) == [ok |-> TRUE, value |-> value]
StructField(jsonTag, sensitiveTag) == [json |-> jsonTag, sensitive |-> sensitiveTag]
NilMessage == [isNil |-> TRUE, fields |-> <<>>]
Message(fields) == [isNil |-> FALSE, fields |-> fields]

\* field.Tag.Get(key): the value, "" when the tag is absent
TagGet(tag) == IF tag.ok THEN tag.value ELSE <<>>

\* jsonFieldName: the json tag up to its first comma
JsonFieldName(jsonTag) ==
    LET commaIdx == Index(jsonTag, <<",">>)
    IN  IF commaIdx > -1 THEN SubSeq(jsonTag, 1, commaIdx) ELSE jsonTag

\* the masking that leaves a string of one byte alone
MaskStringKeepShort(strValue) ==
    IF Len(strValue) >= 2
    THEN SubSeq(strValue, 1, 1) \o <<"*", "*", "*", "*", "*">>
         \o SubSeq(strValue, Len(strValue), Len(strValue))
    ELSE strValue

\* the value stored for a string value strValue
MaskString(strValue) ==
    IF Len(strValue) >= 2
    THEN SubSeq(strValue, 1, 1) \o <<"*", "*", "*", "*", "*">>
         \o SubSeq(strValue, Len(strValue), Len(strValue))
    ELSE IF Len(strValue) = 1
    THEN strValue \o <<"*", "*", "*", "*", "*">>
    ELSE strValue

\* the body of the loop for one field
MaskField(field, data) ==
    IF field.sensitive.ok /\ field.sensitive.value = <<"t", "r", "u", "e">>
    THEN LET jsonFieldName == JsonFieldName(TagGet(field.json))
         IN  IF data.t = "map" /\ jsonFieldName \in DOMAIN data.v
                /\ data.v[jsonFieldName].t = "string"
             THEN MapValue([data.v EXCEPT ![jsonFieldName] =
                              StringValue(MaskString(@.v))])
             ELSE data
    ELSE data

RECURSIVE MaskFields(_, _, _)
\* the loop over the fields from field i on
MaskFields(fields, i, data) ==
    IF i > Len(fields) THEN data
    ELSE MaskFields(fields, i + 1, MaskField(fields[i], data))

\* the map after the call
maskSensitiveDataUsingStructTag(message, data) ==
    IF message.isNil THEN data ELSE MaskFields(message.fields, 1, data)

(***************************************************************************)
(* Actions.                                                                *)
(***************************************************************************)
\* a compilation that stores nil over a compiled template
CompileCanonicalLogTemplateToggle ==
    /\ canonicalLogTemplate' =
          IF canonicalLogTemplate = "compiled" THEN "nil" ELSE "compiled"
    /\ UNCHANGED <<args, pc, frame, sink, logKey, sanitizeResult, restVars>>

\* CompileCanonicalLogTemplate(): Parse cannot fail on the constant
\* template text, so the variable is assigned the compiled template
CompileCanonicalLogTemplate ==
    /\ canonicalLogTemplate' = "compiled"
    /\ UNCHANGED <<args, pc, frame, sink, logKey, sanitizeResult, restVars>>

\* the error the caller would hold if stackTrace were a pointer to
\* StackErrors[0] instead of the copy GetStackField returns
TruncatedInPlace(err) ==
    IF IsException(err) /\ ~err.e.StackErrors.isNil
                        /\ Len(err.e.StackErrors.elems) > 0
    THEN [err EXCEPT !.e.StackErrors.elems[1].Stack = TruncateStack(@)]
    ELSE err

\* CanonicalLogger with canonicalLog passed by pointer and stackTrace a
\* pointer into the error: its two assignments reach the caller
CanonicalLoggerByReference ==
    /\ pc = "start"
    /\ sink' = sink \o CanonicalLoggerCalls(canonicalLogTemplate, args)
    /\ frame' = CanonicalLoggerFrame(canonicalLogTemplate, args)
    /\ pc' = "done"
    /\ args' = [args EXCEPT !.canonicalLog = Classified(@, args.err),
                            !.err = TruncatedInPlace(@)]
    /\ UNCHANGED <<canonicalLogTemplate, logKey, sanitizeResult, restVars>>

\* CanonicalLogger(ctx, slogger, level, request, response, err,
\* canonicalLog, metadata).  canonicalLog is passed by value and stackTrace
\* is the copy GetStackField returns, so the assignments at lines 97 and
\* 114 write to locals of the call (frame); request, response, metadata
\* and the error are only read: args, the caller's values, stay.
CanonicalLogger ==
    /\ pc = "start"
    /\ IF NilDereference(args.err)
       THEN /\ pc' = "panic"
            /\ UNCHANGED <<sink, frame>>
       ELSE /\ sink' = sink \o CanonicalLoggerCalls(canonicalLogTemplate, args)
            /\ frame' = CanonicalLoggerFrame(canonicalLogTemplate, args)
            /\ pc' = "done"
    /\ UNCHANGED <<canonicalLogTemplate, args, logKey, sanitizeResult, restVars>>

SanitizeCall ==
    /\ ~sanitizeResult.done
    /\ sanitizeResult' = [done |-> TRUE, value |-> Sanitize(logKey)]
    /\ UNCHANGED <<canonicalLogTemplate, args, pc, frame, sink, logKey, restVars>>

\* a direct call of GetStackField(stackErrors)
GetStackFieldCall ==
    /\ ~stackField.done
    /\ stackField' = [done |-> TRUE, value |-> GetStackField(stackErrors)]
    /\ UNCHANGED <<canonicalLogTemplate, args, pc, frame, sink, logKey,
                   sanitizeResult, stackErrors, dispatchArgs, dispatched,
                   maskArgs, maskResult, initVars, adapterVars, loggerCalls,
                   slogHandler>>

\* the switch on level, run on the level, summary and fields that reach it
DispatchCall ==
    /\ ~dispatched.done
    /\ dispatched' =
          [done |-> TRUE,
           calls |-> Dispatch(dispatchArgs.level, dispatchArgs.logMsg,
                              dispatchArgs.fields)]
    /\ UNCHANGED <<canonicalLogTemplate, args, pc, frame, sink, logKey,
                   sanitizeResult, stackErrors, stackField, dispatchArgs,
                   maskArgs, maskResult, initVars, adapterVars, loggerCalls,
                   slogHandler>>

\* a call of maskSensitiveDataUsingStructTag(message, data)
MaskCall ==
    /\ ~maskResult.done
    /\ maskResult' =
          [done |-> TRUE,
           data |-> maskSensitiveDataUsingStructTag(maskArgs.message,
                                                    maskArgs.data)]
    /\ UNCHANGED <<canonicalLogTemplate, args, pc, frame, sink, logKey,
                   sanitizeResult, stackErrors, stackField, dispatchArgs,
                   dispatched, maskArgs, initVars, adapterVars, loggerCalls,
                   slogHandler>>

(***************************************************************************)
(* logger.Init, one statement a step.  A goroutine g runs                  *)
(*   lock, Env, ServiceName, Version, newZapLogger and Log, Slog,          *)
(*   SetDefault, CompileCanonicalLogTemplate, InfoContext, unlock.         *)
(***************************************************************************)
Goroutines == 1..NumGoroutines

Config(env, serviceName) == [Env |-> env, ServiceName |-> serviceName]

NilLogger == [isNil |-> TRUE, call |-> 0, config |-> Config(<<>>, <<>>)]

\* the loggers built by newZapLogger in Init call number id: never nil
newZapLogger(id, config) ==
    [zapLogger |-> [isNil |-> FALSE, call |-> id, config |-> config],
     slogLogger |-> [isNil |-> FALSE, call |-> id, config |-> config]]

\* os.Getenv(key) if it is not empty, else defaultValue
getEnvOrDefault(key, defaultValue) ==
    IF environ[key] # <<>> THEN environ[key] ELSE defaultValue

\* the group dd that AddDDFields adds to a record (trace and span ids are
\* left out)
DDGroup(env, service, version) ==
    [env |-> env, service |-> service, version |-> version]

identityVars == <<Env, ServiceName, Version>>
loggerVars == <<Log, Slog, defaultLogger>>
callVars == <<initConfig, callsLeft, callId, calls, usedConfigs, environ,
              setenvLeft>>
logCallVars == <<args, pc, frame, sink, logKey, sanitizeResult, pureVars,
                 adapterVars, loggerCalls, slogHandler>>

\* goroutine g moves from one statement of Init to the next
Goto(g, from, to) ==
    /\ initPc[g] = from
    /\ initPc' = [initPc EXCEPT ![g] = to]

\* goroutine g calls Init(config)
InitCall(g, config) ==
    /\ initPc[g] = "idle"
    /\ callsLeft > 0
    /\ initPc' = [initPc EXCEPT ![g] = "Lock"]
    /\ initConfig' = [initConfig EXCEPT ![g] = config]
    /\ callsLeft' = callsLeft - 1
    /\ calls' = calls + 1
    /\ callId' = [callId EXCEPT ![g] = calls + 1]
    /\ usedConfigs' = usedConfigs \cup {config}
    /\ UNCHANGED <<canonicalLogTemplate, logCallVars, m, identityVars,
                   loggerVars, environ, setenvLeft, returned, lastHolder,
                   writer, ddFields>>

\* a Lock that does not wait for the mutex
InitLockNoWait(g) ==
    /\ Goto(g, "Lock", "Env")
    /\ m' = g
    /\ lastHolder' = callId[g]
    /\ UNCHANGED <<canonicalLogTemplate, logCallVars, identityVars,
                   loggerVars, callVars, returned, writer, ddFields>>

\* m.Lock()
InitLock(g) ==
    /\ m = 0
    /\ Goto(g, "Lock", "Env")
    /\ m' = g
    /\ lastHolder' = callId[g]
    /\ UNCHANGED <<canonicalLogTemplate, logCallVars, identityVars,
                   loggerVars, callVars, returned, writer, ddFields>>

\* Env = getEnvOrDefault("DD_ENV", config.Env)
InitEnv(g) ==
    /\ Goto(g, "Env", "ServiceName")
    /\ Env' = getEnvOrDefault("DD_ENV", initConfig[g].Env)
    /\ writer' = [writer EXCEPT !.Env = callId[g]]
    /\ UNCHANGED <<canonicalLogTemplate, logCallVars, m, ServiceName, Version,
                   loggerVars, callVars, returned, lastHolder, ddFields>>

\* ServiceName = getEnvOrDefault("DD_SERVICE", config.ServiceName)
InitServiceName(g) ==
    /\ Goto(g, "ServiceName", "Version")
    /\ ServiceName' = getEnvOrDefault("DD_SERVICE", initConfig[g].ServiceName)
    /\ writer' = [writer EXCEPT !.ServiceName = callId[g]]
    /\ UNCHANGED <<canonicalLogTemplate, logCallVars, m, Env, Version,
                   loggerVars, callVars, returned, lastHolder, ddFields>>

\* Version = getEnvOrDefault("DD_VERSION", "unknown")
InitVersion(g) ==
    /\ Goto(g, "Version", "Log")
    /\ Version' = getEnvOrDefault("DD_VERSION", <<"u", "n", "k", "n", "o", "w", "n">>)
    /\ writer' = [writer EXCEPT !.Version = callId[g]]
    /\ UNCHANGED <<canonicalLogTemplate, logCallVars, m, Env, ServiceName,
                   loggerVars, callVars, returned, lastHolder, ddFields>>

\* zapLogger, slogLogger := newZapLogger(config); Log = zapLogger
InitLog(g) ==
    /\ Goto(g, "Log", "Slog")
    /\ Log' = newZapLogger(callId[g], initConfig[g]).zapLogger
    /\ writer' = [writer EXCEPT !.Log = callId[g]]
    /\ UNCHANGED <<canonicalLogTemplate, logCallVars, m, identityVars, Slog,
                   defaultLogger, callVars, returned, lastHolder, ddFields>>

\* Slog = slogLogger
InitSlog(g) ==
    /\ Goto(g, "Slog", "SetDefault")
    /\ Slog' = newZapLogger(callId[g], initConfig[g]).slogLogger
    /\ writer' = [writer EXCEPT !.Slog = callId[g]]
    /\ UNCHANGED <<canonicalLogTemplate, logCallVars, m, identityVars, Log,
                   defaultLogger, callVars, returned, lastHolder, ddFields>>

\* slog.SetDefault(Slog)
InitSetDefault(g) ==
    /\ Goto(g, "SetDefault", "Compile")
    /\ defaultLogger' = Slog
    /\ UNCHANGED <<canonicalLogTemplate, logCallVars, m, identityVars, Log,
                   Slog, callVars, returned, lastHolder, writer, ddFields>>

\* CompileCanonicalLogTemplate()
InitCompile(g) ==
    /\ Goto(g, "Compile", "InfoContext")
    /\ canonicalLogTemplate' = "compiled"
    /\ UNCHANGED <<logCallVars, m, identityVars, loggerVars, callVars,
                   returned, lastHolder, writer, ddFields>>

\* the record of line 50
LoggerInitialized == SinkCall("InfoContext", <<"L", "o", "g", "g", "e", "r", " ", "i", "n", "i", "t", "i", "a", "l", "i", "z", "e", "d">>, <<>>)

\* slog.InfoContext(ctx, "Logger initialized"): the record is written by
\* the default logger, which is Slog since line 48, while the mutex is held
InitInfoContext(g) ==
    /\ Goto(g, "InfoContext", "return")
    /\ sink' = sink \o <<LoggerInitialized>>
    /\ UNCHANGED <<canonicalLogTemplate, args, pc, frame, logKey,
                   sanitizeResult, pureVars, adapterVars, loggerCalls,
                   slogHandler, m,
                   identityVars, loggerVars, callVars, returned, lastHolder,
                   writer, ddFields>>

\* return Slog, with the deferred m.Unlock()
InitReturn(g) ==
    /\ Goto(g, "return", "idle")
    /\ m' = 0
    /\ returned' = returned + 1
    /\ UNCHANGED <<canonicalLogTemplate, logCallVars, identityVars,
                   loggerVars, callVars, lastHolder, writer, ddFields>>

\* one step of an Init call
InitStep ==
    \E g \in Goroutines :
        \/ InitLock(g)
        \/ InitEnv(g)
        \/ InitServiceName(g)
        \/ InitVersion(g)
        \/ InitLog(g)
        \/ InitSlog(g)
        \/ InitSetDefault(g)
        \/ InitCompile(g)
        \/ InitInfoContext(g)
        \/ InitReturn(g)

\* what an unsynchronized read of a package variable yields: its value,
\* or, when an Init call is about to write it, also the value being
\* written or a torn string
Torn == <<"torn">>
RacyRead(current, pending) ==
    {current} \cup UNION {{value, Torn} : value \in pending}

\* the values that Init calls standing at their assignment are about to write
PendingEnv ==
    {getEnvOrDefault("DD_ENV", initConfig[g].Env) :
        g \in {h \in Goroutines : initPc[h] = "Env"}}
PendingServiceName ==
    {getEnvOrDefault("DD_SERVICE", initConfig[g].ServiceName) :
        g \in {h \in Goroutines : initPc[h] = "ServiceName"}}
PendingVersion ==
    {getEnvOrDefault("DD_VERSION", <<"u", "n", "k", "n", "o", "w", "n">>) :
        g \in {h \in Goroutines : initPc[h] = "Version"}}

\* AddDDFields that clears Env after reading it
AddDDFieldsClearing ==
    /\ ~ddFields.done
    /\ ddFields' = [done |-> TRUE, group |-> DDGroup(Env, ServiceName, Version)]
    /\ Env' = <<>>
    /\ UNCHANGED <<canonicalLogTemplate, logCallVars, m, ServiceName, Version,
                   loggerVars, callVars, initPc, returned, lastHolder, writer>>

\* AddDDFields(ctx, record), run by the Handler for a record logged by any
\* goroutine: it reads Env, ServiceName and Version without the mutex
AddDDFields ==
    /\ ~ddFields.done
    /\ \E env \in RacyRead(Env, PendingEnv),
          service \in RacyRead(ServiceName, PendingServiceName),
          version \in RacyRead(Version, PendingVersion) :
            ddFields' = [done |-> TRUE,
                         group |-> DDGroup(env, service, version)]
    /\ UNCHANGED <<canonicalLogTemplate, logCallVars, m, identityVars,
                   loggerVars, callVars, initPc, returned, lastHolder, writer>>

\* os.Setenv(key, value) by the program around the Init calls
Setenv(key, value) ==
    /\ setenvLeft > 0
    /\ setenvLeft' = setenvLeft - 1
    /\ environ' = [environ EXCEPT ![key] = value]
    /\ UNCHANGED <<canonicalLogTemplate, logCallVars, m, identityVars,
                   loggerVars, initConfig, callsLeft, callId, calls,
                   usedConfigs, initPc, returned, lastHolder, writer,
                   ddFields>>

(***************************************************************************)
(* Inputs.                                                                 *)
(***************************************************************************)
Levels == {Debug, Info, Warn, Error, 0, 3, 16}

CanonicalLog(transport, traffic, method, status, path, duration, message) ==
    [Transport |-> transport, Traffic |-> traffic, Method |-> method,
     Status |-> status, Path |-> path, Duration |-> duration,
     Message |-> message]

\* the record of the template test, with another path and message
SampleLog(path, message) ==
    CanonicalLog(<<"H", "T", "T", "P">>, <<"i", "n", "c", "o", "m", "i", "n", "g">>, <<"G", "E", "T">>, 200, path,
                 150 * Millisecond, message)

Args(level, request, response, err, canonicalLog, metadata) ==
    [level |-> level, request |-> request, response |-> response,
     err |-> err, canonicalLog |-> canonicalLog, metadata |-> metadata]

NoFrame ==
    [shouldSanitize |-> FALSE, level |-> 0,
     canonicalLog |-> SampleLog(<<>>, <<>>), logTmplErr |-> FALSE]

Paths == { <<"/", "a", "p", "i", "/", "u", "s", "e", "r", "s">>, <<"/", "h", "e", "a", "l", "t", "h">>, <<"/", "a", "p", "i", "/", "a", "u", "t", "h", "/", "L", "O", "G", "I", "N">>, <<"/", "v", "1", "/", "T", "o", "k", "e", "n">> }

Messages == { <<"S", "u", "c", "c", "e", "s", "s">>, <<"a", "<", "b", " ", "&", " ", "'", "c", "'">>, <<>> }

Metadatas == { <<>>, <<StringAttr("request_id", <<"r", "e", "q", "-", "1", "2", "3">>)>> }

\* "line 1", "line 2", ... joined by sep
RECURSIVE Lines(_, _)
Lines(n, sep) ==
    IF n = 0 THEN <<>>
    ELSE IF n = 1 THEN <<"l", "1">>
    ELSE Lines(n - 1, sep) \o sep \o <<"l">> \o Itoa(n)

\* a domain error with the given debug message and stack frames
SampleException(debugMessage, errs) ==
    ExceptionError(
        [Code |-> 500, GlobalMessage |-> <<"I", "n", "t", "e", "r", "n", "a", "l", " ", "E", "r", "r", "o", "r">>,
         DebugMessage |-> debugMessage, APIStatusCode |-> 503,
         ErrFields |-> MapValue(<<"d", "e", "t", "a", "i", "l">> :> StringValue(<<"t", "i", "m", "e", "o", "u", "t">>)),
         StackErrors |-> errs])

Frame(stack) == StackError(<<"R", "u", "n", "t", "i", "m", "e", "E", "r", "r", "o", "r">>, <<"b", "o", "o", "m">>, stack)

Errs ==
    { NilError, OpaqueError, NilExceptionError,
      SampleException(<<"d", "b", " ", "<", "d", "o", "w", "n", ">">>, NilSlice),
      SampleException(<<"d", "b", " ", "<", "d", "o", "w", "n", ">">>, Slice(<<>>)),
      SampleException(<<"d", "b", " ", "<", "d", "o", "w", "n", ">">>, Slice(<<Frame(Lines(2, FrameDelimiter))>>)),
      SampleException(<<"d", "b", " ", "<", "d", "o", "w", "n", ">">>,
          Slice(<<Frame(Lines(MaxSegs, FrameDelimiter)), Frame(<<"s", "e", "c", "o", "n", "d">>)>>)) }

Requests == { <<"{", "\"", "a", "\"", ":", "1", "}">>, <<"i", "n", "v", "a", "l", "i", "d", " ", "j", "s", "o", "n">>, <<"n", "u", "l", "l">> }

Responses == { <<"{", "}">>, <<"[", "1", "]">> }

(***************************************************************************)
(* JSON documents as syntax trees [t, v], their text and their Go value.   *)
(* A payload that is the text of an object tree is a structured document.  *)
(***************************************************************************)
DObject(members) == [t |-> "object", v |-> members]
DMember(k, x) == [k |-> k, x |-> x]
DArray(elems) == [t |-> "array", v |-> elems]
DString(str) == [t |-> "string", v |-> str]
DNumber(n) == [t |-> "number", v |-> n]
DTrue == [t |-> "true", v |-> <<>>]
DFalse == [t |-> "false", v |-> <<>>]
DNull == [t |-> "null", v |-> <<>>]

RECURSIVE Encode(_, _)
RECURSIVE EncodeMembers(_, _)
RECURSIVE EncodeElems(_, _)

\* the text of a tree, with the white space sp around every token
Encode(d, sp) ==
    CASE d.t = "object" ->
            <<"{">> \o sp \o EncodeMembers(d.v, sp) \o <<"}">>
      [] d.t = "array" ->
            <<"[">> \o sp \o EncodeElems(d.v, sp) \o <<"]">>
      [] d.t = "string" -> <<"\"">> \o d.v \o <<"\"">>
      [] d.t = "number" -> Itoa(d.v)
      [] d.t = "true" -> <<"t", "r", "u", "e">>
      [] d.t = "false" -> <<"f", "a", "l", "s", "e">>
      [] d.t = "null" -> <<"n", "u", "l", "l">>

EncodeMembers(ms, sp) ==
    IF ms = <<>> THEN <<>>
    ELSE <<"\"">> \o ms[1].k \o <<"\"">> \o sp \o <<":">> \o sp
         \o Encode(ms[1].x, sp) \o sp
         \o (IF Len(ms) > 1 THEN <<",">> \o sp ELSE <<>>)
         \o EncodeMembers(Tail(ms), sp)

EncodeElems(es, sp) ==
    IF es = <<>> THEN <<>>
    ELSE Encode(es[1], sp) \o sp
         \o (IF Len(es) > 1 THEN <<",">> \o sp ELSE <<>>)
         \o EncodeElems(Tail(es), sp)

RECURSIVE Denote(_)
RECURSIVE DenoteMembers(_)

\* the Go value of a tree decoded into interface{}
Denote(d) ==
    CASE d.t = "object" -> MapValue(DenoteMembers(d.v))
      [] d.t = "array" -> SliceValue([i \in DOMAIN d.v |-> Denote(d.v[i])])
      [] d.t = "string" -> StringValue(d.v)
      [] d.t = "number" -> NumberValue(d.v)
      [] d.t = "true" -> BoolValue(TRUE)
      [] d.t = "false" -> BoolValue(FALSE)
      [] d.t = "null" -> NilValue

\* the map of the members: a key that occurs twice keeps its last value
DenoteMembers(ms) ==
    IF ms = <<>> THEN <<>>
    ELSE LET rest == DenoteMembers(Tail(ms))
         IN  IF ms[1].k \in DOMAIN rest THEN rest
             ELSE (ms[1].k :> Denote(ms[1].x)) @@ rest

ObjectDocs ==
    { DObject(<<>>),
      DObject(<<DMember(<<"a">>, DNumber(1))>>),
      DObject(<<DMember(<<"u", "s", "e", "r">>, DString(<<"b", "o", "b">>)),
                DMember(<<"i", "d">>, DNumber(-12))>>),
      DObject(<<DMember(<<"a">>, DObject(<<DMember(<<"b">>, DNull)>>)),
                DMember(<<"c">>, DArray(<<DNumber(0), DString(<<"x">>), DTrue>>))>>),
      DObject(<<DMember(<<"a">>, DNumber(1)), DMember(<<"a">>, DFalse)>>),
      DObject(<<DMember(<<>>, DArray(<<>>))>>) }

OtherDocs ==
    { DNull, DTrue, DFalse, DNumber(12), DNumber(-3), DString(<<"a", "b", "c">>),
      DString(<<>>), DArray(<<>>), DArray(<<DNumber(1), DNumber(2)>>),
      DArray(<<DObject(<<DMember(<<"a">>, DNumber(1))>>)>>) }

Spacings == { <<>>, <<" ">>, <<"\n", "\t">> }

\* the text of a tree as a whole document
Document(d, sp) == sp \o Encode(d, sp) \o sp

\* the proper prefixes of a text
Truncations(text) == {SubSeq(text, 1, n) : n \in 0..(Len(text) - 1)}

Malformed ==
    { <<>>, <<"i", "n", "v", "a", "l", "i", "d", " ", "j", "s", "o", "n">>, <<"a", "l", "s", "o", " ", "i", "n", "v", "a", "l", "i", "d", " ", "j", "s", "o", "n">>, <<"{", "\"", "a", "\"", ":", "1", "}", "x">>,
      <<"{", "\"", "a", "\"", ":", "1", "}", "{", "}">>, <<"{", "'", "a", "'", ":", "1", "}">>, <<"{", "a", ":", "1", "}">>, <<"{", "\"", "a", "\"", ":", "1", ",", "}">>,
      <<"{", "\"", "a", "\"", " ", "1", "}">>, <<"{", "\"", "a", "\"", ":", "0", "1", "}">>, <<"{", "\"", "a", "\"", ":", "-", "}">>, <<"{", "\"", "a", "\"", ":", "t", "r", "u", "}">>,
      <<"{", "\"", "a", "\"", ":", "\"", "b", "\n", "c", "\"", "}">>, <<"[", "1", ",", "]">>, <<"n", "u", "l">>, <<"n", "u", "l", "l", "n", "u", "l", "l">>, <<" ">>,
      <<"{", ",", "}">>, <<"{", "\"", "a", "\"", ":", "1", " ", "\"", "b", "\"", ":", "2", "}">>, <<"{", "1", ":", "2", "}">> }

Payloads ==
    {Document(d, sp) : d \in ObjectDocs \cup OtherDocs, sp \in Spacings}
    \cup UNION {Truncations(Document(d, <<>>)) : d \in ObjectDocs}
    \cup Malformed

(***************************************************************************)
(* Stack texts: n segments of one shape, joined by the frame delimiter or  *)
(* by a bare newline.                                                      *)
(***************************************************************************)
SegmentShapes == {"line", "empty", "frame", "tab"}

\* segment i of a shape; no segment contains the frame delimiter
Segment(shape, i) ==
    CASE shape = "line" -> <<"l">> \o Itoa(i)
      [] shape = "empty" -> <<>>
      [] shape = "frame" -> <<"m", "a", "i", "n", ".", "g", "o", ":">> \o Itoa(i) \o <<"\n", "m", "a", "i", "n", ".", "f">>
      [] shape = "tab" -> <<"\t">>

Segments(shape, n) == [i \in 1..n |-> Segment(shape, i)]

SegmentLists ==
    {Segments(shape, n) : shape \in SegmentShapes, n \in 1..MaxSegs}
    \cup {<<Lines(n, <<"\n">>)>> : n \in 1..MaxSegs}

StackTexts == {Join(segs, FrameDelimiter) : segs \in SegmentLists}

StackErrs ==
    {SampleException(<<"b", "o", "o", "m">>, Slice(<<Frame(st)>>)) : st \in StackTexts}
    \cup {SampleException(<<"b", "o", "o", "m">>, Slice(<<Frame(st), Frame(<<"s", "e", "c", "o", "n", "d">>)>>)) :
            st \in StackTexts}

(***************************************************************************)
(* Concurrent CanonicalLogger calls.  Each goroutine runs the function on  *)
(* its own arguments, a group of statements a step; level and canonicalLog *)
(* are parameters, that is locals of the call.  The steps of different     *)
(* goroutines interleave.  The only package variable the function reads is *)
(* canonicalLogTemplate.                                                   *)
(***************************************************************************)
NoLocals ==
    [reqFields |-> <<>>, shouldSanitize |-> FALSE, level |-> 0,
     respFields |-> <<>>, canonicalLog |-> SampleLog(<<>>, <<>>),
     mdFields |-> <<>>, logMsg |-> <<>>]

\* a call that has not run yet
LoggerCall(a) ==
    [args |-> a, pc |-> "Request",
     locals |-> [NoLocals EXCEPT !.level = a.level,
                                 !.canonicalLog = a.canonicalLog],
     emitted |-> <<>>]

\* goroutine g is at `from` and moves to `to` with these locals
LogStep(g, from, to, locals) ==
    /\ loggerCalls[g].pc = from
    /\ loggerCalls' = [loggerCalls EXCEPT ![g].pc = to, ![g].locals = locals]
    /\ UNCHANGED <<canonicalLogTemplate, args, pc, frame, sink, logKey,
                   sanitizeResult, pureVars, initVars, adapterVars, slogHandler>>

\* lines 74-81: reqFields from json.Unmarshal(request, &jsonObj)
LogRequest(g) ==
    LET l == loggerCalls[g].locals
        a == loggerCalls[g].args
    IN  LogStep(g, "Request", "Sanitize",
            [l EXCEPT !.reqFields = <<PayloadField("request", a.request)>>])

\* lines 83-86: shouldSanitize and the redacted reqFields
LogSanitize(g) ==
    LET l == loggerCalls[g].locals
        shouldSanitize == Sanitize(loggerCalls[g].args.canonicalLog.Path)
    IN  LogStep(g, "Sanitize", "Classify",
            [l EXCEPT !.shouldSanitize = shouldSanitize,
                      !.reqFields = IF shouldSanitize
                                    THEN <<StringAttr("request", Redacted)>>
                                    ELSE @])

\* lines 88-131: level, respFields and canonicalLog.Message
LogClassify(g) ==
    LET l == loggerCalls[g].locals
        a == loggerCalls[g].args
    IN  LogStep(g, "Classify", "Redact",
            [l EXCEPT !.level = ResolveLevel(@, a.err),
                      !.respFields = ClassifiedFields(a.response, a.err),
                      !.canonicalLog = Classified(@, a.err)])

\* lines 133-141: the redacted respFields, and mdFields
LogRedact(g) ==
    LET l == loggerCalls[g].locals
        a == loggerCalls[g].args
    IN  LogStep(g, "Redact", "Template",
            [l EXCEPT !.respFields = IF l.shouldSanitize
                                     THEN <<StringAttr("response", Redacted)>>
                                     ELSE @,
                      !.mdFields = MetadataFields(a.metadata)])

\* lines 143-155: logMsg from the package variable canonicalLogTemplate
LogTemplate(g) ==
    LET l == loggerCalls[g].locals
    IN  LogStep(g, "Template", "Emit",
            [l EXCEPT !.logMsg = LogMsg(canonicalLogTemplate, l.canonicalLog)])

\* the emission with reqFields a package variable that any call may have
\* written last
LogEmitSharedFields(g) ==
    /\ loggerCalls[g].pc = "Emit"
    /\ \E h \in Goroutines :
          /\ loggerCalls[h].pc # "Request"
          /\ LET l == loggerCalls[g].locals
                 fields == loggerCalls[h].locals.reqFields \o l.respFields
                               \o l.mdFields
                 emitted == Dispatch(l.level, l.logMsg, fields)
             IN  /\ sink' = sink \o emitted
                 /\ loggerCalls' = [loggerCalls EXCEPT ![g].pc = "done",
                                                       ![g].emitted = emitted]
    /\ UNCHANGED <<canonicalLogTemplate, args, pc, frame, logKey,
                   sanitizeResult, pureVars, initVars, adapterVars, slogHandler>>

\* lines 157-171: fields and the switch on level
LogEmit(g) ==
    /\ loggerCalls[g].pc = "Emit"
    /\ LET l == loggerCalls[g].locals
           fields == l.reqFields \o l.respFields \o l.mdFields
           emitted == Dispatch(l.level, l.logMsg, fields)
       IN  /\ sink' = sink \o emitted
           /\ loggerCalls' = [loggerCalls EXCEPT ![g].pc = "done",
                                                 ![g].emitted = emitted]
    /\ UNCHANGED <<canonicalLogTemplate, args, pc, frame, logKey,
                   sanitizeResult, pureVars, initVars, adapterVars, slogHandler>>

\* one step of goroutine g in CanonicalLogger
LoggerStep(g) ==
    \/ LogRequest(g)
    \/ LogSanitize(g)
    \/ LogClassify(g)
    \/ LogRedact(g)
    \/ LogTemplate(g)
    \/ LogEmit(g)

(***************************************************************************)
(* The slog.Handler of the logger.  Init builds Slog on                    *)
(* NewOtelHandler(...), a logger.Handler around the otelslog handler;      *)
(* slogger.With and slogger.WithGroup derive a logger on the handler that  *)
(* WithAttrs and WithGroup of the current handler return.  isHandler says  *)
(* that the dynamic type of the handler is logger.Handler.                 *)
(***************************************************************************)
MaxDerivations == 3
MaxRecords == 2

SlogHandler(isHandler, attrs, groups) ==
    [isHandler |-> isHandler, attrs |-> attrs, groups |-> groups]

\* NewOtelHandler(handler)
NewOtelHandler == SlogHandler(TRUE, <<>>, <<>>)

\* the handler of Slog, no logger derived from it, no record handled
NoDerivedHandler ==
    slogHandler = [handler |-> NewOtelHandler, derivations |-> 0,
                   handled |-> <<>>]

\* h.WithAttrs(attrs) on the current handler: Handler.WithAttrs wraps the
\* result of the inner WithAttrs in a Handler again, and WithAttrs of the
\* inner handler returns an inner handler
WithAttrs(attrs) ==
    /\ returned >= 1
    /\ slogHandler.derivations < MaxDerivations
    /\ slogHandler' =
          [slogHandler EXCEPT
              !.derivations = @ + 1,
              !.handler = SlogHandler(@.isHandler, @.attrs \o attrs,
                                      @.groups)]
    /\ UNCHANGED <<canonicalLogTemplate, args, pc, frame, sink, logKey,
                   sanitizeResult, pureVars, initVars, adapterVars,
                   loggerCalls>>

\* h.WithGroup(name) on the current handler: Handler.WithGroup returns
\* what WithGroup of the inner handler returns, which is no Handler
WithGroup(name) ==
    /\ returned >= 1
    /\ slogHandler.derivations < MaxDerivations
    /\ slogHandler' =
          [slogHandler EXCEPT
              !.derivations = @ + 1,
              !.handler = SlogHandler(FALSE, @.attrs, Append(@.groups, name))]
    /\ UNCHANGED <<canonicalLogTemplate, args, pc, frame, sink, logKey,
                   sanitizeResult, pureVars, initVars, adapterVars,
                   loggerCalls>>

\* h.Handle(ctx, record) on the current handler, for a record logged
\* without a span in the context: Handler.Handle adds the dd group and
\* delegates, the inner handler passes the record on as it is
Handle(msg) ==
    /\ returned >= 1
    /\ Len(slogHandler.handled) < MaxRecords
    /\ slogHandler' =
          [slogHandler EXCEPT
              !.handled =
                  Append(@, [msg |-> msg,
                             attrs |-> slogHandler.handler.attrs,
                             groups |-> slogHandler.handler.groups,
                             hasDD |-> slogHandler.handler.isHandler,
                             dd |-> IF slogHandler.handler.isHandler
                                    THEN DDGroup(Env, ServiceName, Version)
                                    ELSE DDGroup(<<>>, <<>>, <<>>)])]
    /\ UNCHANGED <<canonicalLogTemplate, args, pc, frame, sink, logKey,
                   sanitizeResult, pureVars, initVars, adapterVars,
                   loggerCalls>>

(***************************************************************************)
(* The transport adapters.  A constructor call and a wrapped call are one  *)
(* action each.  The wrapped handler or invoker is given by what it does:  *)
(* it panics, or it returns an error (and a response, a status, a body).   *)
(* A request or response value of a gRPC call is given by its kind         *)
(* ("proto", a nil pointer, a value that is no proto.Message, a message    *)
(* protojson cannot marshal), its struct and its protojson text.           *)
(***************************************************************************)
NotConstructed == [result |-> "none", logger |-> NilLogger]
Panicked == [result |-> "panic", logger |-> NilLogger]
Constructed(logger) == [result |-> "handler", logger |-> logger]

\* what a read of logger.Slog without the mutex yields: its value, or the
\* value an Init call is about to store
SlogReads ==
    {Slog} \cup
    {newZapLogger(callId[g], initConfig[g]).slogLogger :
        g \in {h \in Goroutines : initPc[h] = "Slog"}}

\* what a read of canonicalLogTemplate without the mutex yields
TemplateReads ==
    {canonicalLogTemplate} \cup
    {"compiled" : g \in {h \in Goroutines : initPc[h] = "Compile"}}

\* httpserver.HTTPMiddleware()
HTTPMiddleware ==
    /\ adapters.HTTPMiddleware = NotConstructed
    /\ \E slogger \in SlogReads :
          adapters' = [adapters EXCEPT !.HTTPMiddleware =
                          IF slogger.isNil THEN Panicked
                          ELSE Constructed(slogger)]
    /\ UNCHANGED <<canonicalLogTemplate, args, pc, frame, sink, logKey,
                   sanitizeResult, pureVars, initVars, loggerCalls, slogHandler,
                   wrapped, outcome>>

\* grpcserver.GRPCServerInterceptor()
GRPCServerInterceptor ==
    /\ adapters.GRPCServerInterceptor = NotConstructed
    /\ \E slogger \in SlogReads :
          adapters' = [adapters EXCEPT !.GRPCServerInterceptor =
                          IF slogger.isNil THEN Panicked
                          ELSE Constructed(slogger)]
    /\ UNCHANGED <<canonicalLogTemplate, args, pc, frame, sink, logKey,
                   sanitizeResult, pureVars, initVars, loggerCalls, slogHandler,
                   wrapped, outcome>>

\* grpcclient.GRPCClientInterceptor(): no test of logger.Slog; the
\* interceptor logs through the default logger of slog
GRPCClientInterceptor ==
    /\ adapters.GRPCClientInterceptor = NotConstructed
    /\ adapters' = [adapters EXCEPT !.GRPCClientInterceptor =
                       Constructed(NilLogger)]
    /\ UNCHANGED <<canonicalLogTemplate, args, pc, frame, sink, logKey,
                   sanitizeResult, pureVars, initVars, loggerCalls, slogHandler,
                   wrapped, outcome>>

HandlerDoes(panics, err, status, body, resp) ==
    [panics |-> panics, err |-> err, status |-> status, body |-> body,
     resp |-> resp]

Wrapped(adapter, method, path, req, handler) ==
    [adapter |-> adapter, method |-> method, path |-> path, req |-> req,
     handler |-> handler]

ProtoValue(kind, message, json) ==
    [kind |-> kind, message |-> message, json |-> json]
NoValue == ProtoValue("nil", NilMessage, <<>>)

\* what the adapter hands back: the error and the response it returns and
\* the status and body of the HTTP response when it returns, or the panic
\* it lets through; events is what the adapter did, in order, and logged
\* the number of its CanonicalLogger calls
Outcome(panicked, err, resp, status, body, events) ==
    [done |-> TRUE, panicked |-> panicked, err |-> err, resp |-> resp,
     status |-> status, body |-> body, events |-> events,
     logged |-> Cardinality({i \in DOMAIN events :
                                events[i] = "CanonicalLogger"})]
NoOutcome ==
    [done |-> FALSE, panicked |-> FALSE, err |-> NilError, resp |-> NoValue,
     status |-> 0, body |-> <<>>, events |-> <<>>, logged |-> 0]

StatusBadRequest == 400
StatusInternalServerError == 500
\* the time a wrapped call takes
Elapse == 150 * Millisecond

\* the fields of the HTTP middleware; the request has no headers
HTTPFields(method, path) ==
    <<StringAttr("logger_name", <<"c", "a", "n", "o", "n", "i", "c", "a", "l">>),
      GroupAttr("httpserver_md",
          <<StringAttr("type", <<"h", "t", "t", "p", "s", "e", "r", "v", "e", "r">>),
            StringAttr("method", method),
            StringAttr("path", path),
            StringAttr("ip", <<"1", "2", "7", ".", "0", ".", "0", ".", "1">>),
            StringAttr("duration", DurationString(Elapse)),
            StringAttr("accept-language", <<>>),
            StringAttr("x-request-id", <<>>),
            StringAttr("x-username", <<>>),
            StringAttr("x-user-id", <<>>),
            StringAttr("x-permissions", <<"[", "]">>)>>)>>

\* the arguments of the CanonicalLogger call of the HTTP middleware
HTTPLogArgs(w) ==
    Args(IF w.handler.status >= StatusBadRequest THEN Error ELSE Info,
         w.req.json, w.handler.body, w.handler.err,
         CanonicalLog(<<"h", "t", "t", "p">>, <<"i", "n", "t", "e", "r", "n", "a", "l">>, w.method, w.handler.status,
                      w.path, Elapse, <<>>),
         HTTPFields(w.method, w.path))

\* the middleware that returns nil instead of the error of the handler
LoggingDropError ==
    /\ adapters.HTTPMiddleware.result = "handler"
    /\ wrapped.adapter = "http"
    /\ ~outcome.done
    /\ IF wrapped.handler.panics
       THEN /\ outcome' = Outcome(FALSE, NilError, NoValue,
                                  StatusInternalServerError,
                                  <<"{", "\"", "e", "r", "r", "o", "r", "\"", ":", "\"", "I", "n", "t", "e", "r", "n", "a", "l", " ", "S", "e", "r", "v", "e", "r", " ", "E", "r", "r", "o", "r", "\"", "}">>,
                                  <<"handler", "recover">>)
            /\ UNCHANGED sink
       ELSE /\ outcome' = Outcome(FALSE, NilError, NoValue,
                                  wrapped.handler.status, wrapped.handler.body,
                                  <<"handler", "CanonicalLogger">>)
            /\ \E tmpl \in TemplateReads :
                  sink' = sink \o CanonicalLoggerCalls(tmpl, HTTPLogArgs(wrapped))
    /\ UNCHANGED <<canonicalLogTemplate, args, pc, frame, logKey,
                   sanitizeResult, pureVars, initVars, loggerCalls, slogHandler,
                   adapters, wrapped>>

\* the handler returned by Logging(), run on one request: c.Next(), then
\* one CanonicalLogger call, then return err; a panic of the handler is
\* recovered by the deferred function, which sets status 500 and the
\* error body, and the middleware returns nil without logging
Logging ==
    /\ adapters.HTTPMiddleware.result = "handler"
    /\ wrapped.adapter = "http"
    /\ ~outcome.done
    /\ IF wrapped.handler.panics
       THEN /\ outcome' = Outcome(FALSE, NilError, NoValue,
                                  StatusInternalServerError,
                                  <<"{", "\"", "e", "r", "r", "o", "r", "\"", ":", "\"", "I", "n", "t", "e", "r", "n", "a", "l", " ", "S", "e", "r", "v", "e", "r", " ", "E", "r", "r", "o", "r", "\"", "}">>,
                                  <<"handler", "recover">>)
            /\ UNCHANGED sink
       ELSE /\ outcome' = Outcome(FALSE, wrapped.handler.err, NoValue,
                                  wrapped.handler.status, wrapped.handler.body,
                                  <<"handler", "CanonicalLogger">>)
            /\ \E tmpl \in TemplateReads :
                  sink' = sink \o CanonicalLoggerCalls(tmpl, HTTPLogArgs(wrapped))
    /\ UNCHANGED <<canonicalLogTemplate, args, pc, frame, logKey,
                   sanitizeResult, pureVars, initVars, loggerCalls, slogHandler,
                   adapters, wrapped>>

\* protoMessageToJsonBytes after the assertion x.(proto.Message): nil for
\* a value that is no message, a nil pointer or a marshal error
protoMessageToJsonBytes(x) ==
    IF x.kind = "proto" THEN x.json ELSE <<>>

HealthCheck == <<"/", "g", "r", "p", "c", ".", "h", "e", "a", "l", "t", "h", ".", "v", "1", ".", "H", "e", "a", "l", "t", "h", "/", "C", "h", "e", "c", "k">>

\* int(status.Code(err)): OK for nil, Unknown for an error without status
StatusCode(err) == IF err.type = "nil" THEN 0 ELSE 2

GRPCServerFields(fullMethod) ==
    <<StringAttr("logger_name", <<"c", "a", "n", "o", "n", "i", "c", "a", "l">>),
      GroupAttr("grpcserver_md",
          <<StringAttr("type", <<"g", "r", "p", "c", "s", "e", "r", "v", "e", "r">>),
            StringAttr("method", <<"P", "O", "S", "T">>),
            StringAttr("path", fullMethod),
            StringAttr("duration", DurationString(Elapse))>>)>>

\* the arguments of the CanonicalLogger call of the gRPC server interceptor
GRPCServerLogArgs(w) ==
    Args(IF w.handler.err.type # "nil" THEN Error ELSE Info,
         protoMessageToJsonBytes(w.req),
         protoMessageToJsonBytes(w.handler.resp), w.handler.err,
         CanonicalLog(<<"g", "r", "p", "c">>, <<"i", "n", "t", "e", "r", "n", "a", "l">>, <<"P", "O", "S", "T">>,
                      StatusCode(w.handler.err), w.path, Elapse, <<>>),
         GRPCServerFields(w.path))

\* the interceptor without the health-check bypass
InterceptLogsHealthCheck ==
    /\ adapters.GRPCServerInterceptor.result = "handler"
    /\ wrapped.adapter = "grpcserver"
    /\ ~outcome.done
    /\ IF wrapped.handler.panics
       THEN /\ outcome' = Outcome(TRUE, NilError, NoValue, 0, <<>>, <<"handler">>)
            /\ UNCHANGED sink
       ELSE /\ outcome' = Outcome(FALSE, wrapped.handler.err,
                                  wrapped.handler.resp, 0, <<>>,
                                  <<"handler", "CanonicalLogger">>)
            /\ \E tmpl \in TemplateReads :
                  sink' = sink \o
                      CanonicalLoggerCalls(tmpl, GRPCServerLogArgs(wrapped))
    /\ UNCHANGED <<canonicalLogTemplate, args, pc, frame, logKey,
                   sanitizeResult, pureVars, initVars, loggerCalls, slogHandler,
                   adapters, wrapped>>

\* the interceptor returned by Intercept(), run on one call
Intercept ==
    /\ adapters.GRPCServerInterceptor.result = "handler"
    /\ wrapped.adapter = "grpcserver"
    /\ ~outcome.done
    /\ IF wrapped.handler.panics
       THEN /\ outcome' = Outcome(TRUE, NilError, NoValue, 0, <<>>, <<"handler">>)
            /\ UNCHANGED sink
       ELSE IF wrapped.path = HealthCheck
       THEN /\ outcome' = Outcome(FALSE, wrapped.handler.err,
                                  wrapped.handler.resp, 0, <<>>,
                                  <<"handler">>)
            /\ UNCHANGED sink
       ELSE /\ outcome' = Outcome(FALSE, wrapped.handler.err,
                                  wrapped.handler.resp, 0, <<>>,
                                  <<"handler", "CanonicalLogger">>)
            /\ \E tmpl \in TemplateReads :
                  sink' = sink \o
                      CanonicalLoggerCalls(tmpl, GRPCServerLogArgs(wrapped))
    /\ UNCHANGED <<canonicalLogTemplate, args, pc, frame, logKey,
                   sanitizeResult, pureVars, initVars, loggerCalls, slogHandler,
                   adapters, wrapped>>

\* protoMessageToMap after the assertion x.(proto.Message): [map, err]
protoMessageToMap(x) ==
    IF x.kind = "proto"
    THEN [map |-> maskSensitiveDataUsingStructTag(x.message,
                      Unmarshal(x.json).obj),
          err |-> Unmarshal(x.json).err]
    ELSE [map |-> NilMap, err |-> x.kind = "unmarshalable"]

\* the records of logGRPCClientRequest; metadata is empty
logGRPCClientRequest(method, req) ==
    (IF protoMessageToMap(req).err
     THEN <<SinkCall("WarnContext", <<"f", "a", "i", "l", "e", "d", " ", "t", "o", " ", "c", "o", "n", "v", "e", "r", "t", " ", "r", "e", "q", "u", "e", "s", "t", " ", "t", "o", " ", "m", "a", "p">>,
                     <<StringAttr("error", <<"m", "a", "r", "s", "h", "a", "l", " ", "e", "r", "r", "o", "r">>)>>)>>
     ELSE <<>>)
    \o <<SinkCall("InfoContext", <<"S", "e", "n", "t", " ", "g", "R", "P", "C", " ", "R", "e", "q", "u", "e", "s", "t", " ", "t", "o", " ">> \o method,
                  <<StringAttr("type", <<"g", "r", "p", "c", "c", "l", "i", "e", "n", "t">>),
                    StringAttr("method", method),
                    AnyAttr("metadata", NilMap),
                    AnyAttr("body", protoMessageToMap(req).map)>>)>>

\* the records of logGRPCClientResponse
logGRPCClientResponse(method, resp, err) ==
    (IF protoMessageToMap(resp).err
     THEN <<SinkCall("WarnContext", <<"f", "a", "i", "l", "e", "d", " ", "t", "o", " ", "c", "o", "n", "v", "e", "r", "t", " ", "r", "e", "s", "p", "o", "n", "s", "e", " ", "t", "o", " ", "m", "a", "p">>,
                     <<StringAttr("error", <<"m", "a", "r", "s", "h", "a", "l", " ", "e", "r", "r", "o", "r">>)>>)>>
     ELSE <<>>)
    \o <<SinkCall(IF err.type # "nil" THEN "ErrorContext" ELSE "InfoContext",
                  <<"R", "e", "c", "e", "i", "v", "e", "d", " ", "g", "R", "P", "C", " ", "R", "e", "s", "p", "o", "n", "s", "e", " ", "f", "r", "o", "m", " ">> \o method,
                  <<StringAttr("type", <<"g", "r", "p", "c", "c", "l", "i", "e", "n", "t">>),
                    StringAttr("method", method),
                    AnyAttr("metadata", NilMap),
                    AnyAttr("body", protoMessageToMap(resp).map),
                    IntAttr("status_code", StatusCode(err)),
                    AnyAttr("error", IF err.type = "nil" THEN NilValue
                                     ELSE StringValue(<<"e", "r", "r", "o", "r">>)),
                    StringAttr("duration", DurationString(Elapse))>>)>>

\* the interceptor returned by UnaryClientLoggingInterceptor(), run on one
\* call: log the request, invoke, log the response, return err
UnaryClientLoggingInterceptor ==
    /\ adapters.GRPCClientInterceptor.result = "handler"
    /\ wrapped.adapter = "grpcclient"
    /\ ~outcome.done
    /\ IF wrapped.handler.panics
       THEN /\ outcome' = Outcome(TRUE, NilError, NoValue, 0, <<>>,
                                  <<"logGRPCClientRequest", "invoker">>)
            /\ sink' = sink \o logGRPCClientRequest(wrapped.path, wrapped.req)
       ELSE /\ outcome' = Outcome(FALSE, wrapped.handler.err,
                                  wrapped.handler.resp, 0, <<>>,
                                  <<"logGRPCClientRequest", "invoker",
                                    "logGRPCClientResponse">>)
            /\ sink' = sink \o logGRPCClientRequest(wrapped.path, wrapped.req)
                            \o logGRPCClientResponse(wrapped.path,
                                   wrapped.handler.resp, wrapped.handler.err)
    /\ UNCHANGED <<canonicalLogTemplate, args, pc, frame, logKey,
                   sanitizeResult, pureVars, initVars, loggerCalls, slogHandler,
                   adapters, wrapped>>

(***************************************************************************)
(* Specifications.                                                         *)
(***************************************************************************)
NotSanitizing ==
    /\ logKey = <<>>
    /\ sanitizeResult = [done |-> TRUE, value |-> FALSE]

\* no direct GetStackField call
NoStackFieldCall ==
    /\ stackErrors = NilSlice
    /\ stackField = [done |-> TRUE, value |-> StackError(<<>>, <<>>, <<>>)]

\* no direct run of the level switch
NoDispatchCall ==
    /\ dispatchArgs = [level |-> Info, logMsg |-> <<>>, fields |-> <<>>]
    /\ dispatched = [done |-> TRUE, calls |-> <<>>]

\* no call of the masker
NoMaskCall ==
    /\ maskArgs = [message |-> NilMessage, data |-> NilMap]
    /\ maskResult = [done |-> TRUE, data |-> NilMap]

DDKeys == {"DD_ENV", "DD_SERVICE", "DD_VERSION"}

\* the package variables before any Init call
Uninitialized ==
    /\ m = 0
    /\ Log = NilLogger
    /\ Slog = NilLogger
    /\ Env = <<>>
    /\ ServiceName = <<>>
    /\ Version = <<>>
    /\ defaultLogger = NilLogger
    /\ initPc = [g \in Goroutines |-> "idle"]
    /\ initConfig = [g \in Goroutines |-> Config(<<>>, <<>>)]
    /\ callId = [g \in Goroutines |-> 0]
    /\ calls = 0
    /\ usedConfigs = {}
    /\ returned = 0
    /\ lastHolder = 0
    /\ writer = [Log |-> 0, Slog |-> 0, Env |-> 0, ServiceName |-> 0,
                 Version |-> 0]

\* no Init call is ever made
NoInitCall ==
    /\ Uninitialized
    /\ ddFields = [done |-> TRUE, group |-> DDGroup(<<>>, <<>>, <<>>)]
    /\ environ = [k \in DDKeys |-> <<>>]
    /\ setenvLeft = 0
    /\ callsLeft = 0

NoPureCall == NoStackFieldCall /\ NoDispatchCall /\ NoMaskCall

AdapterKinds ==
    {"HTTPMiddleware", "GRPCServerInterceptor", "GRPCClientInterceptor"}

\* no adapter is constructed or run
NoAdapter ==
    /\ adapters = [k \in AdapterKinds |-> NotConstructed]
    /\ wrapped = Wrapped("none", <<>>, <<>>, NoValue,
                         HandlerDoes(FALSE, NilError, 0, <<>>, NoValue))
    /\ outcome = NoOutcome

\* no goroutine runs a concurrent CanonicalLogger call
NoLoggerCalls ==
    loggerCalls = [g \in Goroutines |->
                      [LoggerCall(Args(Info, <<>>, <<>>, NilError,
                                       SampleLog(<<>>, <<>>), <<>>))
                          EXCEPT !.pc = "done"]]

\* nothing happens outside the canonical-log call and the Sanitize call
RestIdle ==
    NoPureCall /\ NoInitCall /\ NoAdapter /\ NoLoggerCalls /\ NoDerivedHandler

NotLogging ==
    /\ canonicalLogTemplate = "nil"
    /\ args = Args(Info, <<>>, <<>>, NilError, SampleLog(<<>>, <<>>), <<>>)
    /\ pc = "done"
    /\ frame = NoFrame
    /\ sink = <<>>

BeforeCall ==
    /\ canonicalLogTemplate = "nil"
    /\ pc = "start"
    /\ frame = NoFrame
    /\ sink = <<>>
    /\ NotSanitizing
    /\ RestIdle

\* the assembler on every combination of level, payloads, error and route
Init ==
    /\ BeforeCall
    /\ args \in {Args(l, req, resp, e, SampleLog(p, msg), md) :
                    l \in Levels, req \in Requests, resp \in Responses,
                    e \in Errs, p \in Paths, msg \in Messages,
                    md \in Metadatas}

Next == CompileCanonicalLogTemplate \/ CanonicalLogger

Spec == Init /\ [][Next]_vars

\* the payload normalizer on every payload, as request and as response
InitPayload ==
    /\ BeforeCall
    /\ args \in {Args(Info, req, resp, e, SampleLog(<<"/", "a", "p", "i", "/", "t", "e", "s", "t">>, <<"o", "k">>), <<>>) :
                    req \in Payloads, resp \in Requests, e \in {NilError}}
                \cup
                {Args(Info, req, resp, e, SampleLog(<<"/", "a", "p", "i", "/", "t", "e", "s", "t">>, <<"o", "k">>), <<>>) :
                    req \in Requests, resp \in Payloads,
                    e \in {NilError, OpaqueError, NilExceptionError}}

SpecPayload == InitPayload /\ [][Next]_vars

\* the renderer on records with markup characters in every field
InitRender ==
    /\ BeforeCall
    /\ args \in {Args(Info, <<"{", "}">>, <<"{", "}">>, e,
                      CanonicalLog(tr, tf, <<"G", "E", "T">>, st, p, d, msg), <<>>) :
                    tr \in { <<"H", "T", "T", "P">>, <<"g", "<", "R", ">", "P", "C">> },
                    tf \in { <<"i", "n", "c", "o", "m", "i", "n", "g">>, <<"R", "&", "D">> },
                    st \in {200, 0, -1, 404},
                    p \in { <<"/", "a", "p", "i", "/", "u", "s", "e", "r", "s">>, <<"/", "a", "+", "b">>, <<"/", "q", "?", "x", "=", "'", "1", "'">> },
                    d \in {0, 500, 1500, 150 * Millisecond,
                           1500 * Millisecond, 2 * Second},
                    msg \in { <<"S", "u", "c", "c", "e", "s", "s">>, <<>>, <<"s", "a", "y", " ", "\"", "h", "i", "\"", " ", "<", "o", "k", ">">> },
                    e \in {NilError, OpaqueError,
                           SampleException(<<"d", "b", " ", "<", "d", "o", "w", "n", ">">>, NilSlice),
                           SampleException(<<"t", "i", "m", "e", "o", "u", "t">>, NilSlice)}}

SpecRender == InitRender /\ [][Next]_vars

\* the classifier on every stack text
InitStack ==
    /\ BeforeCall
    /\ args \in {Args(l, <<"{", "}">>, <<"{", "}">>, e, SampleLog(p, <<>>), <<>>) :
                    l \in {Info, Error}, e \in StackErrs,
                    p \in { <<"/", "a", "p", "i", "/", "u", "s", "e", "r", "s">>, <<"/", "l", "o", "g", "i", "n">> }}

SpecStack == InitStack /\ [][Next]_vars

\* Sanitize called directly on every route key
InitSanitize ==
    /\ NotLogging
    /\ RestIdle
    /\ logKey \in RouteKeys
    /\ sanitizeResult = [done |-> FALSE, value |-> FALSE]

NextSanitize == SanitizeCall

SpecSanitize == InitSanitize /\ [][NextSanitize]_vars

\* frames a stack-error list is made of
SampleFrames ==
    {StackError(<<"E", "1">>, <<"f", "i", "r", "s", "t">>, <<"a">>),
     StackError(<<"E", "2">>, <<"s", "e", "c", "o", "n", "d">>, <<>>),
     StackError(<<"u", "n", "k", "n", "o", "w", "n">>, <<"n", "o", " ", "s", "t", "a", "c", "k", " ", "i", "n", "f", "o", "r", "m", "a", "t", "i", "o", "n", " ", "a", "v", "a", "i", "l", "a", "b", "l", "e">>, <<>>),
     StackError(<<>>, <<>>, <<>>)}

\* the nil list, the empty list and every list of 1..MaxFrames frames
StackErrorLists ==
    {NilSlice} \cup
    {Slice(fs) : fs \in UNION {[1..n -> SampleFrames] : n \in 0..MaxFrames}}

\* GetStackField on every list of stack errors
InitStackField ==
    /\ NotLogging
    /\ NotSanitizing
    /\ stackErrors \in StackErrorLists
    /\ stackField = [done |-> FALSE, value |-> StackError(<<>>, <<>>, <<>>)]
    /\ NoDispatchCall
    /\ NoMaskCall
    /\ NoInitCall
    /\ NoAdapter
    /\ NoLoggerCalls
    /\ NoDerivedHandler

NextStackField == GetStackFieldCall

SpecStackField == InitStackField /\ [][NextStackField]_vars

\* the Level values that reach the switch: the four constants, the values
\* between and around them, and a negative one
MaxLevel == 17
LevelValues == {-1} \cup 0..MaxLevel

\* the level switch on every Level value
InitDispatch ==
    /\ NotLogging
    /\ NotSanitizing
    /\ NoStackFieldCall
    /\ dispatchArgs \in [level : LevelValues,
                          logMsg : {TemplateFallback, <<>>},
                          fields : {MetadataFields(md) : md \in Metadatas}
                                   \cup {<<>>}]
    /\ dispatched = [done |-> FALSE, calls |-> <<>>]
    /\ NoMaskCall
    /\ NoInitCall
    /\ NoAdapter
    /\ NoLoggerCalls
    /\ NoDerivedHandler

NextDispatch == DispatchCall

SpecDispatch == InitDispatch /\ [][NextDispatch]_vars

\* struct fields: sensitive with and without json options, sensitive
\* without json tag, not sensitive, sensitive tag that is not "true"
SampleFields ==
    { StructField(Tag(<<"p", "a", "s", "s", "w", "o", "r", "d", ",", "o", "m", "i", "t", "e", "m", "p", "t", "y">>), Tag(<<"t", "r", "u", "e">>)),
      StructField(Tag(<<"t", "o", "k", "e", "n">>), Tag(<<"t", "r", "u", "e">>)),
      StructField(NoTag, Tag(<<"t", "r", "u", "e">>)),
      StructField(Tag(<<"n", "a", "m", "e">>), NoTag),
      StructField(Tag(<<"p", "i", "n">>), Tag(<<"T", "R", "U", "E">>)) }

\* the nil message and the structs of at most MaxFields different fields
MaskMessages ==
    {NilMessage} \cup
    {Message(fs) : fs \in {f \in UNION {[1..n -> SampleFields] : n \in 0..MaxFields} :
                              \A i, j \in DOMAIN f : f[i] = f[j] => i = j}}

\* the two bytes of the character U+00E9
EAcute == <<"xC3", "xA9">>

MaskKeys == { <<"p", "a", "s", "s", "w", "o", "r", "d">>, <<"t", "o", "k", "e", "n">>, <<>>, <<"n", "a", "m", "e">>, <<"p", "i", "n">>, <<"o", "t", "h", "e", "r">> }

MaskValues ==
    { StringValue(<<"s", "e", "c", "r", "e", "t", "1", "2", "3">>), StringValue(<<"x">>), StringValue(<<>>),
      StringValue(<<"a", "b">>), StringValue(EAcute \o <<"t">> \o EAcute),
      NumberValue(5), MapValue(<<"t", "o", "k", "e", "n">> :> StringValue(<<"n", "e", "s", "t", "e", "d">>)) }

\* the nil map and the maps of at most MaxKeys keys
MaskMaps ==
    {NilMap} \cup
    {MapValue(mp) : mp \in UNION {[ks -> MaskValues] :
                        ks \in {k \in SUBSET MaskKeys : Cardinality(k) <= MaxKeys}}}

\* the masker on every message and map
InitMask ==
    /\ NotLogging
    /\ NotSanitizing
    /\ NoStackFieldCall
    /\ NoDispatchCall
    /\ maskArgs \in [message : MaskMessages, data : MaskMaps]
    /\ maskResult = [done |-> FALSE, data |-> NilMap]
    /\ NoInitCall
    /\ NoAdapter
    /\ NoLoggerCalls
    /\ NoDerivedHandler

NextMask == MaskCall

SpecMask == InitMask /\ [][NextMask]_vars

Configs == { Config(<<"t", "e", "s", "t">>, <<"s", "v", "c", "-", "a">>), Config(<<"p", "r", "o", "d">>, <<"s", "v", "c", "-", "b">>) }

\* a DD_* variable is unset (empty) or set to this value
DDValues == { <<>>, <<"d", "d">> }

\* concurrent Init calls, one per goroutine, in a fixed environment
InitConcurrentInit ==
    /\ NotLogging
    /\ NotSanitizing
    /\ NoPureCall
    /\ Uninitialized
    /\ ddFields = [done |-> TRUE, group |-> DDGroup(<<>>, <<>>, <<>>)]
    /\ environ \in [DDKeys -> DDValues]
    /\ setenvLeft = 0
    /\ callsLeft = NumGoroutines
    /\ NoAdapter
    /\ NoLoggerCalls
    /\ NoDerivedHandler

NextConcurrentInit ==
    \/ \E g \in Goroutines, config \in Configs : InitCall(g, config)
    \/ InitStep

SpecConcurrentInit == InitConcurrentInit /\ [][NextConcurrentInit]_vars

\* a run of the program: Init calls, concurrent or one after the other,
\* together with changes of the environment, or a record enrichment, or a
\* canonical-log call
InitRun ==
    /\ canonicalLogTemplate = "nil"
    /\ args = Args(Info, <<"{", "}">>, <<"{", "}">>, NilError,
                   SampleLog(<<"/", "a", "p", "i", "/", "t", "e", "s", "t">>, <<"o", "k">>), <<>>)
    /\ frame = NoFrame
    /\ sink = <<>>
    /\ NotSanitizing
    /\ NoPureCall
    /\ Uninitialized
    /\ environ = [k \in DDKeys |-> <<>>]
    /\ callsLeft = NumGoroutines
    /\ \E enriched \in BOOLEAN :
          ddFields = [done |-> enriched, group |-> DDGroup(<<>>, <<>>, <<>>)]
    /\ pc \in {"start", "done"}
    /\ setenvLeft \in {0, MaxSetenv}
    /\ \/ setenvLeft = MaxSetenv /\ ddFields.done /\ pc = "done"
       \/ setenvLeft = 0 /\ ~ddFields.done /\ pc = "done"
       \/ setenvLeft = 0 /\ ddFields.done /\ pc = "start"
    /\ NoAdapter
    /\ NoLoggerCalls
    /\ NoDerivedHandler

NextRun ==
    \/ \E g \in Goroutines, config \in Configs : InitCall(g, config)
    \/ InitStep
    \/ \E key \in DDKeys, value \in DDValues : Setenv(key, value)
    \/ AddDDFields
    \/ CanonicalLogger

SpecRun == InitRun /\ [][NextRun]_vars

\* values of a gRPC request or response: a message with a sensitive
\* field, a nil pointer, a value that is no proto.Message, a message that
\* cannot be marshalled
GRPCValues ==
    { ProtoValue("proto",
          Message(<<StructField(Tag(<<"p", "a", "s", "s", "w", "o", "r", "d", ",", "o", "m", "i", "t", "e", "m", "p", "t", "y">>), Tag(<<"t", "r", "u", "e">>)),
                    StructField(Tag(<<"n", "a", "m", "e">>), NoTag)>>),
          <<"{", "\"", "p", "a", "s", "s", "w", "o", "r", "d", "\"", ":", "\"", "s", "e", "c", "r", "e", "t", "1", "2", "3", "\"", ",", "\"", "n", "a", "m", "e", "\"", ":", "\"", "b", "o", "b", "\"", "}">>),
      ProtoValue("nil", NilMessage, <<>>),
      ProtoValue("nonproto", NilMessage, <<>>),
      ProtoValue("unmarshalable", Message(<<>>), <<>>) }

HandlerErrs ==
    { NilError, OpaqueError,
      SampleException(<<"d", "b", " ", "<", "d", "o", "w", "n", ">">>, Slice(<<Frame(Lines(2, FrameDelimiter))>>)) }

HTTPCalls ==
    { Wrapped("http", <<"G", "E", "T">>, path, ProtoValue("bytes", NilMessage, <<"{", "\"", "a", "\"", ":", "1", "}">>),
              HandlerDoes(panics, err, status, body, NoValue)) :
        path \in { <<"/", "a", "p", "i", "/", "u", "s", "e", "r", "s">>, <<"/", "a", "p", "i", "/", "a", "u", "t", "h", "/", "L", "O", "G", "I", "N">> },
        panics \in BOOLEAN, err \in HandlerErrs,
        status \in {200, 404}, body \in { <<"{", "\"", "i", "d", "\"", ":", "7", "}">>, <<"o", "o", "p", "s">> } }

GRPCServerCalls ==
    { Wrapped("grpcserver", <<"P", "O", "S", "T">>, path, req,
              HandlerDoes(panics, err, 0, <<>>, resp)) :
        path \in { HealthCheck, <<"/", "p", "k", "g", ".", "U", "s", "e", "r", "s", "/", "G", "e", "t">> },
        req \in GRPCValues, panics \in BOOLEAN, err \in HandlerErrs,
        resp \in GRPCValues }

GRPCClientCalls ==
    { Wrapped("grpcclient", <<"P", "O", "S", "T">>, <<"/", "p", "k", "g", ".", "U", "s", "e", "r", "s", "/", "G", "e", "t">>, req,
              HandlerDoes(panics, err, 0, <<>>, resp)) :
        req \in GRPCValues, panics \in BOOLEAN, err \in HandlerErrs,
        resp \in GRPCValues }

\* the three adapters, constructed before, during or after one Init call,
\* each wrapping one call
InitAdapters ==
    /\ NotLogging
    /\ NotSanitizing
    /\ NoLoggerCalls
    /\ NoDerivedHandler
    /\ NoPureCall
    /\ Uninitialized
    /\ ddFields = [done |-> TRUE, group |-> DDGroup(<<>>, <<>>, <<>>)]
    /\ environ = [k \in DDKeys |-> <<>>]
    /\ setenvLeft = 0
    /\ callsLeft = 1
    /\ adapters = [k \in AdapterKinds |-> NotConstructed]
    /\ wrapped \in HTTPCalls \cup GRPCServerCalls \cup GRPCClientCalls
    /\ outcome = NoOutcome

NextAdapters ==
    \/ \E g \in Goroutines : InitCall(g, Config(<<"t", "e", "s", "t">>, <<"s", "v", "c", "-", "a">>))
    \/ InitStep
    \/ HTTPMiddleware
    \/ GRPCServerInterceptor
    \/ GRPCClientInterceptor
    \/ Logging
    \/ Intercept
    \/ UnaryClientLoggingInterceptor

SpecAdapters == InitAdapters /\ [][NextAdapters]_vars


\* the arguments of the concurrent calls: routes redacted or not, every
\* kind of error, payloads that parse or not
ConcurrentArgs ==
    { Args(Info, <<"{", "\"", "a", "\"", ":", "1", "}">>, <<"{", "}">>, NilError,
           SampleLog(<<"/", "a", "p", "i", "/", "u", "s", "e", "r", "s">>, <<"S", "u", "c", "c", "e", "s", "s">>),
           <<StringAttr("request_id", <<"r", "e", "q", "-", "1", "2", "3">>)>>),
      Args(Debug, <<"i", "n", "v", "a", "l", "i", "d", " ", "j", "s", "o", "n">>, <<"[", "1", "]">>, OpaqueError,
           SampleLog(<<"/", "a", "p", "i", "/", "a", "u", "t", "h", "/", "L", "O", "G", "I", "N">>, <<"d", "e", "n", "i", "e", "d">>), <<>>),
      Args(Warn, <<"{", "\"", "b", "\"", ":", "2", "}">>, <<"o", "o", "p", "s">>,
           SampleException(<<"d", "b", " ", "d", "o", "w", "n">>,
               Slice(<<Frame(Lines(MaxSegs, FrameDelimiter))>>)),
           SampleLog(<<"/", "h", "e", "a", "l", "t", "h">>, <<>>),
           <<StringAttr("request_id", <<"r", "e", "q", "-", "4", "5", "6">>)>>),
      Args(16, <<"n", "u", "l", "l">>, <<"{", "}">>, NilExceptionError,
           SampleLog(<<"/", "v", "1", "/", "T", "o", "k", "e", "n">>, <<"S", "u", "c", "c", "e", "s", "s">>), <<>>),
      Args(Error, <<"{", "}">>, <<"{", "\"", "i", "d", "\"", ":", "7", "}">>, NilError,
           SampleLog(<<"/", "a", "p", "i", "/", "o", "r", "d", "e", "r", "s">>, <<"c", "r", "e", "a", "t", "e", "d">>), <<>>) }

\* NumGoroutines calls made concurrently after the template was compiled
InitConcurrentLog ==
    /\ canonicalLogTemplate = "compiled"
    /\ args = Args(Info, <<>>, <<>>, NilError, SampleLog(<<>>, <<>>), <<>>)
    /\ pc = "done"
    /\ frame = NoFrame
    /\ sink = <<>>
    /\ NotSanitizing
    /\ NoPureCall
    /\ NoInitCall
    /\ NoAdapter
    /\ NoDerivedHandler
    /\ loggerCalls \in [Goroutines -> {LoggerCall(a) : a \in ConcurrentArgs}]

NextConcurrentLog == \E g \in Goroutines : LoggerStep(g)

SpecConcurrentLog == InitConcurrentLog /\ [][NextConcurrentLog]_vars

\* Init calls, direct calls of CompileCanonicalLogTemplate and one
\* CanonicalLogger call, in every order and interleaving
InitTemplate ==
    /\ canonicalLogTemplate = "nil"
    /\ args \in {Args(Info, <<"{", "}">>, <<"{", "}">>, e,
                      SampleLog(<<"/", "a", "p", "i", "/", "t", "e", "s", "t">>, <<"o", "k">>), <<>>) :
                    e \in {NilError, SampleException(<<"d", "b", " ", "d", "o", "w", "n">>, NilSlice)}}
    /\ pc = "start"
    /\ frame = NoFrame
    /\ sink = <<>>
    /\ NotSanitizing
    /\ NoPureCall
    /\ Uninitialized
    /\ environ = [k \in DDKeys |-> <<>>]
    /\ callsLeft = NumGoroutines
    /\ ddFields = [done |-> TRUE, group |-> DDGroup(<<>>, <<>>, <<>>)]
    /\ setenvLeft = 0
    /\ NoAdapter
    /\ NoLoggerCalls
    /\ NoDerivedHandler

NextTemplate ==
    \/ \E g \in Goroutines : InitCall(g, Config(<<"t", "e", "s", "t">>, <<"s", "v", "c", "-", "a">>))
    \/ InitStep
    \/ CompileCanonicalLogTemplate
    \/ CanonicalLogger

SpecTemplate == InitTemplate /\ [][NextTemplate]_vars

\* one Init call, then loggers derived from the logger it returned by
\* With and WithGroup in every order, and records logged through them
InitDerive ==
    /\ NotLogging
    /\ NotSanitizing
    /\ NoPureCall
    /\ Uninitialized
    /\ ddFields = [done |-> TRUE, group |-> DDGroup(<<>>, <<>>, <<>>)]
    /\ environ = [k \in DDKeys |-> <<>>]
    /\ setenvLeft = 0
    /\ callsLeft = 1
    /\ NoAdapter
    /\ NoLoggerCalls
    /\ NoDerivedHandler

NextDerive ==
    \/ \E g \in Goroutines : InitCall(g, Config(<<"t", "e", "s", "t">>, <<"t", "e", "s", "t", "-", "s", "e", "r", "v", "i", "c", "e">>))
    \/ InitStep
    \/ WithAttrs(<<StringAttr("key1", <<"v", "a", "l", "u", "e", "1">>), IntAttr("key2", 42)>>)
    \/ WithGroup(<<"t", "e", "s", "t", "_", "g", "r", "o", "u", "p">>)
    \/ Handle(<<"t", "e", "s", "t", " ", "m", "e", "s", "s", "a", "g", "e">>)

SpecDerive == InitDerive /\ [][NextDerive]_vars

(***************************************************************************)
(* Properties.                                                             *)
(***************************************************************************)
\* sub occurs in s as a substring
Occurs(s, sub) ==
    \E i \in 1..(Len(s) - Len(sub) + 1) : SubSeq(s, i, i + Len(sub) - 1) = sub

\* the lower-cased key contains a pattern of the default deny-list
DenyListed(key) ==
    \E pattern \in { <<"l", "o", "g", "i", "n">>, <<"r", "e", "f", "r", "e", "s", "h", "-", "t", "o", "k", "e", "n">>, <<"v", "e", "r", "i", "f", "y", "-", "o", "t", "p">>,
                     <<"p", "a", "s", "s", "w", "o", "r", "d">>, <<"t", "o", "k", "e", "n">>, <<"s", "e", "c", "r", "e", "t">>, <<"k", "e", "y">> } :
        Occurs(ToLower(key), pattern)

\* the call has returned and handed one record to the logger
Emitted == pc = "done" /\ Len(sink) = 1

\* s ends with suffix
EndsWith(s, suffix) ==
    /\ Len(s) >= Len(suffix)
    /\ SubSeq(s, Len(s) - Len(suffix) + 1, Len(s)) = suffix

\* the summary line written without any escaping
PlainSummary(r) ==
    Concat(<< <<"[">>, r.Transport, <<"]", "[">>, r.Traffic, <<"]", " ">>, r.Method,
              <<" ">>, Itoa(r.Status), <<" ">>, r.Path, <<" ">>,
              DurationString(r.Duration), <<" ", "-", " ">>, r.Message >>)

\* the field a payload must have: the parsed map of a structured document,
\* the raw text of anything else
ExpectedField(key, payload) ==
    IF \E d \in ObjectDocs, sp \in Spacings : Document(d, sp) = payload
    THEN AnyAttr(key, Denote(CHOOSE d \in ObjectDocs :
                        \E sp \in Spacings : Document(d, sp) = payload))
    ELSE StringAttr(key, payload)

\* the record carries the stack group of a domain error
StackRendered ==
    /\ Emitted
    /\ sink[1].fields[2].key = "error"

\* the stack text of that group
RenderedStack == sink[1].fields[2].value[3].value

\* the stack text of the first frame of the error passed to the call
InputStack == args.err.e.StackErrors.elems[1].Stack

\* the number of occurrences of newline-tab in a text
DelimiterCount(s) ==
    Cardinality({i \in 1..(Len(s) - 1) : s[i] = "\n" /\ s[i + 1] = "\t"})

\* the number of newlines in a text
NewlineCount(s) == Cardinality({i \in DOMAIN s : s[i] = "\n"})

\* C1: Sanitize returns true exactly for the route keys whose lower case
\* contains a pattern of the default deny-list, and false for all others,
\* the empty key included.
C1_SanitizeIffDenyListed ==
    sanitizeResult.done => (sanitizeResult.value <=> DenyListed(logKey))

C1_Witness ==
    /\ sanitizeResult.done
    /\ sanitizeResult.value
    /\ logKey # ToLower(logKey)
    /\ Occurs(ToLower(logKey), <<"k", "e", "y">>)

\* C2: on a deny-listed route the record has exactly the request attribute
\* "REDACTED" and the response attribute "REDACTED" before the metadata:
\* no payload, error group or response group survives.
C2_RedactedRouteHidesPayloads ==
    (pc = "done" /\ DenyListed(args.canonicalLog.Path)) =>
        /\ Len(sink) = 1
        /\ Len(sink[1].fields) = 4
        /\ sink[1].fields[1] = StringAttr("request", <<"R", "E", "D", "A", "C", "T", "E", "D">>)
        /\ sink[1].fields[2] = StringAttr("response", <<"R", "E", "D", "A", "C", "T", "E", "D">>)
        /\ sink[1].fields[3].key = "logger_name"
        /\ sink[1].fields[4].key = "md"

C2_Witness ==
    /\ Emitted
    /\ DenyListed(args.canonicalLog.Path)
    /\ IsException(args.err)
    /\ Len(args.err.e.StackErrors.elems) > 0
    /\ ~Unmarshal(args.request).err
    /\ sink[1].fields[2] = StringAttr("response", <<"R", "E", "D", "A", "C", "T", "E", "D">>)

\* C3: a call with a non-nil error emits at Error severity, whatever the
\* severity hint.
C3_ErrorForcesErrorSeverity ==
    (pc = "done" /\ args.err.type # "nil") =>
        (Len(sink) = 1 /\ sink[1].method = "ErrorContext")

C3_Witness ==
    /\ Emitted
    /\ args.err.type = "opaque"
    /\ args.level = Debug
    /\ sink[1].method = "ErrorContext"

\* C4: a call without error emits at Info severity whatever the hint, and
\* the summary ends with the caller's Message, character for character.
C4_NoErrorInfoAndCallerMessage ==
    (pc = "done" /\ args.err.type = "nil" /\ ~frame.logTmplErr) =>
        /\ Len(sink) = 1
        /\ sink[1].method = "InfoContext"
        /\ EndsWith(sink[1].msg, <<" ", "-", " ">> \o args.canonicalLog.Message)

\* C5: on a non-redacted route the field of a payload is the parsed map when
\* the payload is a structured document and the raw text otherwise, for the
\* request and for the response alike.
C5_NormalizationTwoValued ==
    (pc = "done" /\ ~DenyListed(args.canonicalLog.Path)
                 /\ ~IsException(args.err)) =>
        /\ Len(sink) = 1
        /\ sink[1].fields[1] = ExpectedField("request", args.request)
        /\ sink[1].fields[2] = ExpectedField("response", args.response)

\* C6: a call makes exactly one emission: none before it ran, one after it
\* returned.
C6_ExactlyOneEmission ==
    /\ pc = "start" => Len(sink) = 0
    /\ pc = "done" => Len(sink) = 1

C6_Witness ==
    /\ Emitted
    /\ frame.logTmplErr
    /\ frame.shouldSanitize
    /\ IsException(args.err)
    /\ args.level = 16

C8_MissingTemplateFallsBack ==
    (pc = "done" /\ frame.logTmplErr) =>
        /\ Len(sink) = 1
        /\ sink[1].msg = <<"f", "a", "i", "l", "e", "d", " ", "t", "o", " ", "g", "e", "t", " ", "c", "a", "n", "o", "n", "i", "c", "a", "l", " ", "l", "o", "g", " ", "t", "e", "m", "p", "l", "a", "t", "e">>
        /\ sink[1].method = CanonicalLoggerCalls("compiled", args)[1].method
        /\ sink[1].fields = CanonicalLoggerCalls("compiled", args)[1].fields

C8_Witness ==
    /\ Emitted
    /\ frame.logTmplErr
    /\ args.err.type = "nil"
    /\ ~frame.shouldSanitize
    /\ sink[1].method = "InfoContext"
    /\ sink[1].msg = <<"f", "a", "i", "l", "e", "d", " ", "t", "o", " ", "g", "e", "t", " ", "c", "a", "n", "o", "n", "i", "c", "a", "l", " ", "l", "o", "g", " ", "t", "e", "m", "p", "l", "a", "t", "e">>

\* C9: the rendered stack of a first frame with n newline-tab separated
\* segments is its first min(n, 6) segments joined by newline-tab.
C9_StackKeepsFirstSixSegments ==
    (StackRendered /\ Len(args.err.e.StackErrors.elems) > 0) =>
        \A segs \in SegmentLists :
            InputStack = Join(segs, <<"\n", "\t">>) =>
                RenderedStack =
                    Join(SubSeq(segs, 1, IF Len(segs) < 6 THEN Len(segs) ELSE 6),
                         <<"\n", "\t">>)

C9_Witness ==
    /\ StackRendered
    /\ InputStack = Lines(10, <<"\n", "\t">>)
    /\ RenderedStack = Lines(6, <<"\n", "\t">>)

\* C10 as stated: the rendered stack has at most 6 newline-delimited
\* segments.
C10_AtMostSixNewlineSegments ==
    StackRendered => NewlineCount(RenderedStack) + 1 <= 6

\* C10: the rendered stack has at most 6 segments delimited by newline-tab.
C10_AtMostSixFrameSegments ==
    StackRendered => DelimiterCount(RenderedStack) + 1 <= 6

C10_Witness ==
    /\ StackRendered
    /\ Len(args.err.e.StackErrors.elems) > 0
    /\ DelimiterCount(InputStack) + 1 > 6
    /\ DelimiterCount(RenderedStack) + 1 = 6
    /\ NewlineCount(RenderedStack) + 1 > 6

\* C11: GetStackField returns the first element of a non-empty list
\* unchanged, and {unknown, "no stack information available", ""} for
\* the empty and the nil list.
C11_FirstFrameOrDefault ==
    stackField.done =>
        IF stackErrors.elems # <<>>
        THEN stackField.value = Head(stackErrors.elems)
        ELSE /\ stackField.value.Kind = <<"u", "n", "k", "n", "o", "w", "n">>
             /\ stackField.value.Message = <<"n", "o", " ", "s", "t", "a", "c", "k", " ", "i", "n", "f", "o", "r", "m", "a", "t", "i", "o", "n", " ", "a", "v", "a", "i", "l", "a", "b", "l", "e">>
             /\ stackField.value.Stack = <<>>

C11_Witness ==
    /\ stackField.done
    /\ Len(stackErrors.elems) = MaxFrames
    /\ stackErrors.elems[1] # stackErrors.elems[MaxFrames]
    /\ stackField.value = stackErrors.elems[1]

\* the call was made with a non-nil *ExceptionError on a route that is not
\* redacted, and has returned
DomainErrorLogged ==
    /\ Emitted
    /\ IsException(args.err)
    /\ ~DenyListed(args.canonicalLog.Path)

\* the record has a top-level group error{kind, message, stack}
HasStackGroup(fields) ==
    \E i \in DOMAIN fields :
        /\ fields[i].key = "error"
        /\ fields[i].kind = "Group"
        /\ Len(fields[i].value) = 3
        /\ fields[i].value[1].key = "kind"
        /\ fields[i].value[2].key = "message"
        /\ fields[i].value[3].key = "stack"

\* the record has the group response{status_code, data = null,
\* error{code, message, debug_message, details}} of the error e
HasResponseGroup(fields, e) ==
    \E i \in DOMAIN fields :
        /\ fields[i].key = "response"
        /\ fields[i].kind = "Group"
        /\ fields[i].value =
              << [key |-> "status_code", kind |-> "Int",
                  value |-> e.APIStatusCode],
                 [key |-> "data", kind |-> "Any", value |-> NilValue],
                 [key |-> "error", kind |-> "Group", value |->
                    << [key |-> "code", kind |-> "Int", value |-> e.Code],
                       [key |-> "message", kind |-> "String",
                        value |-> e.GlobalMessage],
                       [key |-> "debug_message", kind |-> "String",
                        value |-> e.DebugMessage],
                       [key |-> "details", kind |-> "Any",
                        value |-> e.ErrFields] >>] >>

\* C12: for a non-nil *ExceptionError on a non-redacted route the stack
\* group is emitted exactly when the error carries at least one StackFrame
\* (a nil list and an empty list carry none), and the response group is
\* emitted in both cases.
C12_StackGroupIffStackFrame ==
    DomainErrorLogged =>
        /\ HasStackGroup(sink[1].fields)
              <=> (Len(args.err.e.StackErrors.elems) >= 1)
        /\ HasResponseGroup(sink[1].fields, args.err.e)

\* the message the summary must end with: the debug message of a domain
\* error, the caller's Message otherwise
ExpectedMessage ==
    IF IsException(args.err)
    THEN args.err.e.DebugMessage
    ELSE args.canonicalLog.Message

\* C13: the message part of the summary is the DebugMessage of a non-nil
\* *ExceptionError, and the caller's Message for an opaque error and for
\* no error.
C13_MessagePartOfSummary ==
    (Emitted /\ ~frame.logTmplErr) =>
        EndsWith(sink[1].msg, <<" ", "-", " ">> \o ExpectedMessage)

\* the call was made with a non-nil error that is not an *ExceptionError,
\* on a route that is not redacted, and has returned
OpaqueErrorLogged ==
    /\ Emitted
    /\ args.err.type = "opaque"
    /\ ~DenyListed(args.canonicalLog.Path)

\* the normalized payload: the parsed map of a structured document, the
\* nil map that parsing the literal null leaves, the raw text of anything
\* else
NormalizedField(key, payload) ==
    IF \E sp \in Spacings : Document(DNull, sp) = payload
    THEN AnyAttr(key, NilMap)
    ELSE ExpectedField(key, payload)

\* C14: for an opaque error on a non-redacted route the response side of
\* the record is one field, the normalized response payload (the parsed
\* structure, or the raw string when unparseable); no error group and no
\* response group is emitted, and the severity is Error.
C14_OpaqueErrorSingleResponseField ==
    OpaqueErrorLogged =>
        /\ sink[1].method = "ErrorContext"
        /\ Len(sink[1].fields) = 4
        /\ sink[1].fields[1].key = "request"
        /\ sink[1].fields[2] = NormalizedField("response", args.response)
        /\ sink[1].fields[3].key = "logger_name"
        /\ sink[1].fields[4].key = "md"
        /\ \A i \in 1..4 : sink[1].fields[i].key # "error"

C14_Witness ==
    /\ OpaqueErrorLogged
    /\ sink[1].fields[2].key = "response"
    /\ sink[1].fields[2].kind = "String"
    /\ sink[1].fields[2].value = <<"[", "1", ",", "2", "]">>

\* the sink method the switch must call for a Level value
MethodOf(l) ==
    IF l = 1 THEN "DebugContext"
    ELSE IF l = 2 THEN "InfoContext"
    ELSE IF l = 4 THEN "WarnContext"
    ELSE "ErrorContext"

\* C15: the level switch is total: for the Level value that reaches it,
\* exactly one sink method is called, Debug for Debug, Info for Info, Warn
\* for Warn, Error for Error and Error for every other value.
C15_DispatchTotal ==
    dispatched.done =>
        /\ Len(dispatched.calls) = 1
        /\ dispatched.calls[1].method = MethodOf(dispatchArgs.level)
        /\ dispatched.calls[1].msg = dispatchArgs.logMsg
        /\ dispatched.calls[1].fields = dispatchArgs.fields

C15_Witness ==
    /\ dispatched.done
    /\ dispatchArgs.level = 3
    /\ dispatched.calls[1].method = "ErrorContext"

\* the text of a json tag before its first comma
BeforeComma(tag) ==
    LET commas == {i \in DOMAIN tag : tag[i] = ","}
    IN  IF commas = {} THEN tag
        ELSE SubSeq(tag, 1, (CHOOSE i \in commas : \A j \in commas : i <= j) - 1)

\* the json names of the fields of the message tagged sensitive:"true"
SensitiveNames(message) ==
    IF message.isNil THEN {}
    ELSE {BeforeComma(message.fields[i].json.value) :
            i \in {j \in DOMAIN message.fields :
                     message.fields[j].sensitive = [ok |-> TRUE,
                                                    value |-> <<"t", "r", "u", "e">>]}}

\* the masked form of a string
Masked(str) ==
    CASE Len(str) = 0 -> str
      [] Len(str) = 1 -> <<str[1], "*", "*", "*", "*", "*">>
      [] OTHER -> <<str[1], "*", "*", "*", "*", "*", str[Len(str)]>>

\* C16: after maskSensitiveDataUsingStructTag the map has the same keys;
\* the string value of a key that is the json name of a field tagged
\* sensitive:"true" is masked (first and last character around "*****",
\* one character followed by "*****", the empty string unchanged) and
\* every other value is unchanged.
C16_MaskSensitiveStrings ==
    maskResult.done =>
        LET old == maskArgs.data
            new == maskResult.data
        IN  IF old.t # "map" THEN new = old
            ELSE /\ new.t = "map"
                 /\ DOMAIN new.v = DOMAIN old.v
                 /\ \A k \in DOMAIN old.v :
                       new.v[k] =
                          IF k \in SensitiveNames(maskArgs.message)
                             /\ old.v[k].t = "string"
                          THEN [t |-> "string", v |-> Masked(old.v[k].v)]
                          ELSE old.v[k]

C16_Witness ==
    /\ maskResult.done
    /\ ~maskArgs.message.isNil
    /\ maskArgs.data.t = "map"
    /\ DOMAIN maskArgs.data.v = { <<"p", "a", "s", "s", "w", "o", "r", "d">>, <<"n", "a", "m", "e">> }
    /\ maskArgs.data.v[<<"p", "a", "s", "s", "w", "o", "r", "d">>] = StringValue(<<"s", "e", "c", "r", "e", "t", "1", "2", "3">>)
    /\ maskResult.data.v[<<"p", "a", "s", "s", "w", "o", "r", "d">>] = StringValue(<<"s", "*", "*", "*", "*", "*", "3">>)
    /\ maskResult.data.v[<<"n", "a", "m", "e">>] = maskArgs.data.v[<<"n", "a", "m", "e">>]

\* the goroutines between m.Lock() and m.Unlock()
InBody == {g \in Goroutines : initPc[g] \notin {"idle", "Lock"}}

\* every Init call that was started has returned
AllReturned == calls >= 1 /\ returned = calls

\* the value of a DD_* variable, or the fallback when it is not set
EnvOr(key, fallback) == IF environ[key] = <<>> THEN fallback ELSE environ[key]

\* C17: the bodies of concurrent Init calls exclude each other; once all
\* calls have returned, Log, Slog, Env, ServiceName and Version were all
\* written by the call that held the lock last and Slog is not nil; if all
\* calls used one config, the state is that of a single Init with it.
C17_ConcurrentInit ==
    /\ Cardinality(InBody) <= 1
    /\ AllReturned =>
          /\ writer.Log = lastHolder
          /\ writer.Slog = lastHolder
          /\ writer.Env = lastHolder
          /\ writer.ServiceName = lastHolder
          /\ writer.Version = lastHolder
          /\ Log.call = lastHolder
          /\ Slog.call = lastHolder
          /\ ~Slog.isNil
          /\ \A c \in usedConfigs :
                usedConfigs = {c} =>
                    /\ Env = EnvOr("DD_ENV", c.Env)
                    /\ ServiceName = EnvOr("DD_SERVICE", c.ServiceName)
                    /\ Version = EnvOr("DD_VERSION", <<"u", "n", "k", "n", "o", "w", "n">>)
                    /\ ~Log.isNil /\ Log.config = c
                    /\ Slog.config = c
                    /\ defaultLogger = Slog
                    /\ canonicalLogTemplate = "compiled"

C17_Witness ==
    /\ AllReturned
    /\ calls = NumGoroutines
    /\ \A g \in Goroutines : callId[g] # 0
    /\ initConfig[1] # initConfig[2]
    /\ lastHolder = callId[1]
    /\ callId[1] < callId[2]
    /\ Slog.config = initConfig[1]
    /\ Env = initConfig[1].Env

\* C18 as stated: after the first Init call has returned, Env, ServiceName
\* and Version never change.
C18_IdentitySetOnce ==
    [][returned >= 1 => UNCHANGED <<Env, ServiceName, Version>>]_vars

\* C18: Env, ServiceName and Version change only in the three assignments
\* of an Init call that holds the mutex, each to the value that call
\* computes from its config and the DD_* environment; no other step
\* (a change of the environment, CanonicalLogger, AddDDFields) changes them.
C18_IdentityChangesOnlyInInit ==
    [][<<Env, ServiceName, Version>>' # <<Env, ServiceName, Version>> =>
          \E g \in Goroutines :
              /\ m = g
              /\ \/ /\ initPc[g] = "Env" /\ initPc'[g] = "ServiceName"
                    /\ Env' = EnvOr("DD_ENV", initConfig[g].Env)
                    /\ UNCHANGED <<ServiceName, Version>>
                 \/ /\ initPc[g] = "ServiceName" /\ initPc'[g] = "Version"
                    /\ ServiceName' = EnvOr("DD_SERVICE", initConfig[g].ServiceName)
                    /\ UNCHANGED <<Env, Version>>
                 \/ /\ initPc[g] = "Version" /\ initPc'[g] = "Log"
                    /\ Version' = EnvOr("DD_VERSION", <<"u", "n", "k", "n", "o", "w", "n">>)
                    /\ UNCHANGED <<Env, ServiceName>>]_vars

\* a second Init call with another config has returned and changed Env
\* after a record was enriched with the Env of the first
C18_Witness ==
    /\ returned = 2
    /\ Cardinality(usedConfigs) = 2
    /\ writer.Env = lastHolder
    /\ ddFields.done
    /\ ddFields.group.env \in {c.Env : c \in usedConfigs}
    /\ ddFields.group.env # Env

\* no Init call is about to store Slog
NoSlogWritePending == \A g \in Goroutines : initPc[g] # "Slog"

\* C19: a constructor of a transport adapter called while logger.Slog is
\* nil panics and returns no handler, and called while logger.Slog is not
\* nil returns a handler, for HTTPMiddleware, GRPCServerInterceptor and
\* GRPCClientInterceptor.
C19_ConstructionPanicsWhenUninitialized ==
    [][\A k \in AdapterKinds :
          (NoSlogWritePending /\ adapters[k].result = "none"
                              /\ adapters'[k].result # "none") =>
              adapters'[k].result = IF Slog.isNil THEN "panic" ELSE "handler"]_vars

\* the records the adapters emitted: the sink without the record of Init
AdapterRecords == SelectSeq(sink, LAMBDA r : r # LoggerInitialized)

\* C20: when the wrapped handler or invoker returns normally, the adapter
\* returns its error unchanged; the HTTP middleware leaves status and body
\* as the handler set them and the gRPC server interceptor returns the
\* handler's response, whatever the logging path does.
C20_OutcomeUnaltered ==
    (outcome.done /\ ~wrapped.handler.panics) =>
        /\ ~outcome.panicked
        /\ outcome.err = wrapped.handler.err
        /\ wrapped.adapter = "http" =>
              /\ outcome.status = wrapped.handler.status
              /\ outcome.body = wrapped.handler.body
        /\ wrapped.adapter = "grpcserver" =>
              outcome.resp = wrapped.handler.resp

\* the HTTP middleware logged a failed request on a redacted route and
\* returned the handler's domain error
C20_Witness ==
    /\ outcome.done
    /\ wrapped.adapter = "http"
    /\ wrapped.path = <<"/", "a", "p", "i", "/", "a", "u", "t", "h", "/", "L", "O", "G", "I", "N">>
    /\ ~wrapped.handler.panics
    /\ wrapped.handler.err.type = "ExceptionError"
    /\ wrapped.handler.body = <<"o", "o", "p", "s">>
    /\ outcome.err = wrapped.handler.err
    /\ Len(AdapterRecords) = 1
    /\ AdapterRecords[1].method = "ErrorContext"

\* C21: every request that went through the HTTP logging middleware led to
\* exactly one CanonicalLogger call; when the handler panicked the response
\* status is 500 and the one record carries that status.
C21_EveryRequestLoggedOnce ==
    (outcome.done /\ wrapped.adapter = "http") =>
        /\ outcome.logged = 1
        /\ Len(AdapterRecords) = 1
        /\ wrapped.handler.panics =>
              /\ outcome.status = StatusInternalServerError
              /\ Contains(AdapterRecords[1].msg, <<" ", "5", "0", "0", " ">>)

\* the number of times an adapter did what
Count(events, what) == Cardinality({i \in DOMAIN events : events[i] = what})

\* C22: a gRPC server call to the health-check method invokes the handler
\* exactly once, returns its result unchanged and emits no canonical
\* record; a call to any other method invokes the handler exactly once and
\* emits exactly one canonical record, after the handler returned.
C22_HealthCheckBypass ==
    (outcome.done /\ wrapped.adapter = "grpcserver"
                  /\ ~wrapped.handler.panics) =>
        /\ Count(outcome.events, "handler") = 1
        /\ outcome.err = wrapped.handler.err
        /\ outcome.resp = wrapped.handler.resp
        /\ IF wrapped.path = HealthCheck
           THEN /\ outcome.events = <<"handler">>
                /\ AdapterRecords = <<>>
           ELSE /\ outcome.events = <<"handler", "CanonicalLogger">>
                /\ Len(AdapterRecords) = 1
                /\ AdapterRecords[1].fields[Len(AdapterRecords[1].fields)] =
                      GroupAttr("md", GRPCServerFields(wrapped.path))

\* a health check that failed with a domain error went through without a
\* record
C22_Witness ==
    /\ outcome.done
    /\ wrapped.adapter = "grpcserver"
    /\ wrapped.path = HealthCheck
    /\ wrapped.handler.err.type = "ExceptionError"
    /\ wrapped.handler.resp.kind = "proto"
    /\ outcome.events = <<"handler">>
    /\ outcome.resp = wrapped.handler.resp
    /\ AdapterRecords = <<>>

\* C23: CanonicalLogger does not mutate its inputs: when the call returns,
\* the caller's CanonicalLog value, the error with its stack frames, the
\* request and response bytes and the metadata are what they were before.
C23_InputsNotMutated ==
    [][(pc = "start" /\ pc' = "done") => args' = args]_vars

\* the call replaced Message by the debug message of the error and
\* truncated the stack in its locals, and the caller still holds the
\* original message and the whole stack
C23_Witness ==
    /\ pc = "done"
    /\ StackRendered
    /\ Len(args.err.e.StackErrors.elems) = 2
    /\ Len(InputStack) > Len(RenderedStack)
    /\ frame.canonicalLog.Message = args.err.e.DebugMessage
    /\ args.canonicalLog.Message = <<"S", "u", "c", "c", "e", "s", "s">>
    /\ args.canonicalLog.Message # args.err.e.DebugMessage

\* the records of sink that equal r
SinkCount(r) == Cardinality({i \in DOMAIN sink : sink[i] = r})

\* C24: under every interleaving of concurrent CanonicalLogger calls made
\* after initialization, each call emits exactly the record it would emit
\* alone, and the sink receives the records of the calls that emitted and
\* nothing else.
C24_ConcurrentCallsIndependent ==
    /\ \A g \in Goroutines :
          /\ loggerCalls[g].pc = "done" =>
                loggerCalls[g].emitted =
                    CanonicalLoggerCalls("compiled", loggerCalls[g].args)
          /\ loggerCalls[g].pc # "done" => loggerCalls[g].emitted = <<>>
    /\ Len(sink) =
          Cardinality({g \in Goroutines : loggerCalls[g].pc = "done"})
    /\ \A i \in DOMAIN sink :
          SinkCount(sink[i]) =
              Cardinality({g \in Goroutines :
                              loggerCalls[g].emitted = <<sink[i]>>})

\* two calls ran interleaved, one on a redacted route and one with a
\* domain error, and each emitted its own record
C24_Witness ==
    /\ \A g \in Goroutines : loggerCalls[g].pc = "done"
    /\ \E g, h \in Goroutines :
          /\ loggerCalls[g].args.canonicalLog.Path = <<"/", "a", "p", "i", "/", "a", "u", "t", "h", "/", "L", "O", "G", "I", "N">>
          /\ loggerCalls[h].args.err.type = "ExceptionError"
          /\ ~loggerCalls[h].args.err.nilPtr
          /\ sink[1] = loggerCalls[h].emitted[1]
          /\ sink[Len(sink)] = loggerCalls[g].emitted[1]
          /\ loggerCalls[g].emitted[1].fields[1] =
                StringAttr("request", Redacted)
          /\ loggerCalls[h].emitted[1].fields[1] # StringAttr("request", Redacted)

\* C25: no lock is held by the emitter when a record is emitted: the Init
\* call that emits a record does not hold the mutex at that moment, and a
\* CanonicalLogger call takes no lock.
C25_NoLockHeldAtEmission ==
    [][/\ \A g \in Goroutines :
             (initPc[g] = "InfoContext" /\ initPc'[g] = "return"
                                        /\ Len(sink') > Len(sink)) => m # g
       /\ (pc = "start" /\ pc' = "done") => m' = m]_vars

C27_NilPointerErrorIsOpaque ==
    (pc # "start" /\ args.err = NilExceptionError) =>
        /\ pc = "done"
        /\ Len(sink) = 1
        /\ sink[1].method = "ErrorContext"
        /\ frame.canonicalLog = args.canonicalLog
        /\ ~frame.logTmplErr =>
              EndsWith(sink[1].msg, <<" ", "-", " ">> \o args.canonicalLog.Message)
        /\ Len(sink[1].fields) = 4
        /\ sink[1].fields[2] =
              IF DenyListed(args.canonicalLog.Path)
              THEN StringAttr("response", Redacted)
              ELSE NormalizedField("response", args.response)
        /\ sink[1].fields[3].key = "logger_name"
        /\ sink[1].fields[4].key = "md"

\* C28: once the template is compiled it stays compiled, so that
\* GetCanonicalLogTemplate returns it without error from then on, and a
\* CanonicalLogger call made after an Init call returned does not emit the
\* fallback summary.
C28_TemplateStaysAvailable ==
    [][/\ canonicalLogTemplate = "compiled" =>
             /\ canonicalLogTemplate' = "compiled"
             /\ ~GetCanonicalLogTemplate(canonicalLogTemplate').err
       /\ (returned >= 1 /\ pc = "start" /\ pc' = "done") =>
             /\ ~frame'.logTmplErr
             /\ sink'[Len(sink')].msg # TemplateFallback]_vars

\* the call was made after all Init calls returned and further direct
\* compilations, and emitted the rendered summary after the records of Init
C28_Witness ==
    /\ pc = "done"
    /\ returned = NumGoroutines
    /\ canonicalLogTemplate = "compiled"
    /\ Len(sink) = NumGoroutines + 1
    /\ \A i \in 1..NumGoroutines : sink[i] = LoggerInitialized
    /\ ~frame.logTmplErr
    /\ sink[Len(sink)].msg = Execute(frame.canonicalLog)

\* C29: on a deny-listed route with a non-nil *ExceptionError the request
\* and response sides are the redaction sentinel, the error group and the
\* response group are dropped, and the message part of the summary is
\* still the DebugMessage of the error.
C29_SummaryKeepsDebugMessage ==
    (Emitted /\ ~frame.logTmplErr /\ DenyListed(args.canonicalLog.Path)
             /\ IsException(args.err)) =>
        /\ Len(sink[1].fields) = 4
        /\ sink[1].fields[1] = StringAttr("request", Redacted)
        /\ sink[1].fields[2] = StringAttr("response", Redacted)
        /\ sink[1].fields[3].key = "logger_name"
        /\ sink[1].fields[4].key = "md"
        /\ EndsWith(sink[1].msg, <<" ", "-", " ">> \o args.err.e.DebugMessage)

\* C30: every handler derived from the handler of the logger by WithAttrs
\* and WithGroup is a Handler, and every record logged through a derived
\* logger carries the dd group with the identity fields.
C30_DerivedHandlersEnrich ==
    /\ slogHandler.handler.isHandler
    /\ \A i \in DOMAIN slogHandler.handled :
          /\ slogHandler.handled[i].hasDD
          /\ slogHandler.handled[i].dd = DDGroup(Env, ServiceName, Version)

====
